---- MODULE Spec2Model ----
(***************************************************************************)
(* Model of the opqua simulation engine: the Population state container    *)
(* (src/opqua/internal/population.py) and the Gillespie driver             *)
(* (src/opqua/internal/gillespie.py).                                      *)
(*                                                                         *)
(* Conventions                                                             *)
(*  - Python lists are sequences; Python indices are 0-based and are kept  *)
(*    0-based in the model (coefficient_index, getWeightedRandom's index), *)
(*    so element i of a Python list is element i+1 of the sequence.        *)
(*  - An object (Host, Vector) is a record with a uid, its identity.       *)
(*  - Every row of a coefficient matrix carries a ghost field "owner":     *)
(*    the uid of the individual whose constructor appended the row.        *)
(*  - Real numbers are exact rationals <<numerator, denominator>>.         *)
(*  - An operation that can raise returns [M, exc]: the populations as the *)
(*    exception left them, and the exception's name ("none" if none).      *)
(***************************************************************************)
EXTENDS Integers, Sequences, FiniteSets, TLC

VARIABLES
    populations,    \* model.populations: id -> Population
    numpy_strict,   \* whether this build's np.delete raises on an index out of bounds
    last,           \* ghost: what the last operation was and what it saw
    nops,           \* ghost: number of API calls made so far
    gw,             \* getWeightedRandom's argument and result (function check)
    interventions,  \* model.interventions: list of [time, act]
    sim             \* the locals of Gillespie.run and where it stands

popVars == <<populations, numpy_strict>>
vars == <<populations, numpy_strict, last, nops, gw, interventions, sim>>

----------------------------------------------------------------------------
(* Bounds *)

MaxOps == 3         \* API calls per behaviour
MaxInd == 3         \* live individuals of one kind in one population
DrawDen == 3        \* draws are k/DrawDen, k in 0..DrawDen-1
MaxWeight == 2      \* weights of the vectors getWeightedRandom is checked on
MaxLen == 3         \* length of those vectors
Horizon == 3        \* tf of the simulated runs
MaxTime == 4        \* interventions are scheduled at times 0..MaxTime
MaxDt == 2          \* a waiting time is one of 1..MaxDt
MaxInterventions == 2   \* interventions registered before a run
MaxRows == 2        \* event classes of the rate matrices the scan is checked on
MaxSampling == 1    \* run is called with time_sampling in -1..MaxSampling
MaxRate == 2        \* neighbor rates given to the setters are 0..MaxRate

----------------------------------------------------------------------------
(* Program constants *)

INFECTED == 0
CONTACT == 1
LETHALITY == 2
RECOVERY == 3
MIGRATION == 4
POPULATION_CONTACT == 5
MUTATION == 6
RECOMBINATION == 7
NUM_COEFFICIENTS == 8

\* The populations of the model and their setups (inputs).
PopIds == {"A", "B"}
Alleles == {"a", "b"}
num_loci(p) == 1
possible_alleles(p) == IF p = "A" THEN <<{"a", "b"}>> ELSE <<{"a"}>>
Genomes == {<<"a">>, <<"b">>}

----------------------------------------------------------------------------
(* Helpers for Python lists *)

\* A function with domain 1..n written out as the tuple of its values, so that
\* every list of the model is one explicit sequence value.
Tuple(f) == SubSeq(f, 1, Len(f))

RemoveAt(s, i) ==
    Tuple([j \in 1..(Len(s) - 1) |-> IF j < i THEN s[j] ELSE s[j + 1]])

Uids(s) == {s[i].uid : i \in 1..Len(s)}

\* list.index by object identity: 1-based position of the object, 0 if absent
PosOf(s, u) ==
    IF u \in Uids(s) THEN CHOOSE i \in 1..Len(s) :
                              s[i].uid = u /\ \A j \in 1..(i - 1) : s[j].uid # u
    ELSE 0

RECURSIVE SumSeq(_)
SumSeq(s) == IF s = <<>> THEN 0 ELSE s[1] + SumSeq(Tail(s))

Column(matrix, col) == [i \in 1..Len(matrix) |-> matrix[i].c[col + 1]]

Ok(M) == [M |-> M, exc |-> "none"]
Raise(M, e) == [M |-> M, exc |-> e]

\* With(e, LAMBDA v : body) is "v = e; body": e is written once and, being the
\* one element a bound variable ranges over, evaluated once.
With(value, Body(_)) == CHOOSE res \in {Body(v) : v \in {value}} : TRUE

\* Then(res, LAMBDA M : rest): the statements after a call that may raise run
\* only if it did not; an exception leaves the state where the call left it.
Then(res, Rest(_)) ==
    CHOOSE out \in {IF r.exc # "none" THEN r ELSE Rest(r.M) : r \in {res}} : TRUE

----------------------------------------------------------------------------
(* Population.getWeightedRandom *)

None == [index |-> -1, rand |-> <<0, 1>>]

\* The scan of lines 1095-1099.  rand = n/d, so u = rand * r_tot = n * r_tot / d
\* and "u < r_cum" is n * r_tot < r_cum * d.  The value returned with index i
\* is ( u - r_cum + e ) / e = (n * r_tot - r_cum * d + e * d) / (e * d).
\* Falling off the end of the loop returns None.
RECURSIVE getWeightedRandomScan(_, _, _, _, _)

\* A scan that also stops when the draw equals the cumulative weight
RECURSIVE getWeightedRandomScanInclusive(_, _, _, _, _)
getWeightedRandomScanInclusive(r, i, r_cum_before, nu, d) ==
    IF i > Len(r) THEN None
    ELSE IF nu <= (r_cum_before + r[i]) * d
         THEN [index |-> i - 1,
               rand |-> <<nu - (r_cum_before + r[i]) * d + r[i] * d, r[i] * d>>]
         ELSE With(r_cum_before + r[i], LAMBDA r_cum :
                   getWeightedRandomScanInclusive(r, i + 1, r_cum, nu, d))

getWeightedRandomScan(r, i, r_cum_before, nu, d) ==
    IF i > Len(r) THEN None
    ELSE With(r_cum_before + r[i], LAMBDA r_cum :
         IF nu < r_cum * d
         THEN [index |-> i - 1,
               rand |-> <<nu - r_cum * d + r[i] * d, r[i] * d>>]
         ELSE getWeightedRandomScan(r, i + 1, r_cum, nu, d))

getWeightedRandom(rand, r) ==
    With(r, LAMBDA v : With(rand[1] * SumSeq(v), LAMBDA nu :
         getWeightedRandomScan(v, 1, 0, nu, rand[2])))

----------------------------------------------------------------------------
(* Host and Vector: the primitives population.py calls *)

ZeroRow == Tuple([i \in 1..NUM_COEFFICIENTS |-> 0])

\* The row of an individual carrying at least one pathogen, for a setup whose
\* per-genome functions are constant: infected, no contact or population
\* contact resistance, and coefficient 1 for every other event class.
InfectedRow == <<1, 0, 1, 1, 1, 0, 1, 1>>

Owners(matrix) == {matrix[i].owner : i \in 1..Len(matrix)}

UsedUids(M) ==
    UNION {Uids(M[p].hosts) \cup Uids(M[p].vectors)
           \cup Owners(M[p].coefficients_hosts)
           \cup Owners(M[p].coefficients_vectors) : p \in DOMAIN M}

FirstUnused(used) ==
    CHOOSE u \in 1..(Cardinality(used) + 1) :
        u \notin used /\ \A w \in 1..(u - 1) : w \in used

\* Identity of a newly allocated object: the first uid no live object or row has
FreshUid(M) == FirstUnused(UsedUids(M))

NewObject(uid, id, coefficient_index) ==
    [uid |-> uid, id |-> id, coefficient_index |-> coefficient_index,
     pathogens |-> <<>>, protection_sequences |-> <<>>]

\* Host(population, id): a healthy host whose coefficient_index is the number
\* of rows the population's host matrix has, and a new zero row for it.
HostNew(M, p, id, uid) ==
    [M |-> [M EXCEPT ![p].coefficients_hosts =
                         Append(@, [owner |-> uid, c |-> ZeroRow])],
     obj |-> NewObject(uid, id, Len(M[p].coefficients_hosts))]

Host(M, p, id) == HostNew(M, p, id, FreshUid(M))

VectorNew(M, p, id, uid) ==
    [M |-> [M EXCEPT ![p].coefficients_vectors =
                         Append(@, [owner |-> uid, c |-> ZeroRow])],
     obj |-> NewObject(uid, id, Len(M[p].coefficients_vectors))]

Vector(M, p, id) == VectorNew(M, p, id, FreshUid(M))

InSeq(x, s) == \E i \in 1..Len(s) : s[i] = x

AddGenome(pathogens, genome) ==
    IF InSeq(genome, pathogens) THEN pathogens ELSE Append(pathogens, genome)

\* host.acquirePathogen(genome) for the host at position pos (1-based) of
\* population p: records the genome, rewrites the host's own coefficient row
\* (row coefficient_index of the population's matrix) and moves the host to
\* the infected list.
HostAcquireAt(M, p, pos, genome) ==
    IF M[p].hosts[pos].coefficient_index >= Len(M[p].coefficients_hosts)
    THEN Raise([M EXCEPT ![p].hosts[pos].pathogens = AddGenome(@, genome)],
               "IndexError")
    ELSE Ok([M EXCEPT
               ![p].hosts[pos].pathogens = AddGenome(@, genome),
               ![p].coefficients_hosts[M[p].hosts[pos].coefficient_index + 1].c =
                   InfectedRow,
               ![p].infected_hosts = @ \cup {M[p].hosts[pos].uid},
               ![p].healthy_hosts = @ \ {M[p].hosts[pos].uid}])

HostAcquirePathogen(M, p, u, genome) ==
    HostAcquireAt(M, p, PosOf(M[p].hosts, u), genome)

VectorAcquireAt(M, p, pos, genome) ==
    IF M[p].vectors[pos].coefficient_index >= Len(M[p].coefficients_vectors)
    THEN Raise([M EXCEPT ![p].vectors[pos].pathogens = AddGenome(@, genome)],
               "IndexError")
    ELSE Ok([M EXCEPT
               ![p].vectors[pos].pathogens = AddGenome(@, genome),
               ![p].coefficients_vectors[M[p].vectors[pos].coefficient_index + 1].c =
                   InfectedRow,
               ![p].infected_vectors = @ \cup {M[p].vectors[pos].uid}])

VectorAcquirePathogen(M, p, u, genome) ==
    VectorAcquireAt(M, p, PosOf(M[p].vectors, u), genome)

\* np.delete(matrix, index, 0).  An index out of bounds raises IndexError in a
\* strict build and is ignored (with a warning) otherwise.
np_delete(matrix, index, strict) ==
    IF index < Len(matrix) THEN [arr |-> RemoveAt(matrix, index + 1), exc |-> "none"]
    ELSE IF strict THEN [arr |-> matrix, exc |-> "IndexError"]
    ELSE [arr |-> matrix, exc |-> "none"]

----------------------------------------------------------------------------
(* Python dicts: a sequence of <<key, value>> pairs in insertion order *)

DictHas(dict, k) == \E i \in 1..Len(dict) : dict[i][1] = k
DictGet(dict, k) == dict[CHOOSE i \in 1..Len(dict) : dict[i][1] = k][2]
DictSet(dict, k, v) ==
    IF DictHas(dict, k)
    THEN Tuple([i \in 1..Len(dict) |->
                  IF dict[i][1] = k THEN <<k, v>> ELSE dict[i]])
    ELSE Append(dict, <<k, v>>)

----------------------------------------------------------------------------
(* Population *)

\* A setter that adds the new rate to the total without taking the old one off
setHostMigrationNeighborAdds(M, p, neighbor, rate) ==
    [M EXCEPT ![p].neighbors_hosts = DictSet(@, neighbor, rate),
              ![p].total_migration_rate_hosts = @ + rate]

setHostMigrationNeighbor(M, p, neighbor, rate) ==
    [M EXCEPT ![p].neighbors_hosts = DictSet(@, neighbor, rate),
              ![p].total_migration_rate_hosts =
                  IF DictHas(M[p].neighbors_hosts, neighbor)
                  THEN @ - DictGet(M[p].neighbors_hosts, neighbor) + rate
                  ELSE @ + rate]

setVectorMigrationNeighbor(M, p, neighbor, rate) ==
    [M EXCEPT ![p].neighbors_vectors = DictSet(@, neighbor, rate),
              ![p].total_migration_rate_vectors =
                  IF DictHas(M[p].neighbors_vectors, neighbor)
                  THEN @ - DictGet(M[p].neighbors_vectors, neighbor) + rate
                  ELSE @ + rate]

setHostPopulationContactNeighbor(M, p, neighbor, rate) ==
    [M EXCEPT ![p].neighbors_contact_hosts = DictSet(@, neighbor, rate)]

setVectorPopulationContactNeighbor(M, p, neighbor, rate) ==
    [M EXCEPT ![p].neighbors_contact_vectors = DictSet(@, neighbor, rate)]

\* The list comprehensions that construct n hosts (vectors) with ids
\* self.id + '_' + str(i + base), i in range(n); each constructor call appends
\* its row to the matrix before the next call reads the matrix's length.
RECURSIVE NewHosts(_, _, _, _, _, _)
NewHosts(M, p, base, i, n, new_hosts) ==
    IF i >= n THEN [M |-> M, new |-> new_hosts]
    ELSE With(Host(M, p, <<p, i + base>>), LAMBDA made :
             NewHosts(made.M, p, base, i + 1, n, Append(new_hosts, made.obj)))

RECURSIVE NewVectors(_, _, _, _, _, _)
NewVectors(M, p, base, i, n, new_vectors) ==
    IF i >= n THEN [M |-> M, new |-> new_vectors]
    ELSE With(Vector(M, p, <<p, i + base>>), LAMBDA made :
             NewVectors(made.M, p, base, i + 1, n, Append(new_vectors, made.obj)))

DecrementIndex(s) ==
    Tuple([i \in 1..Len(s) |-> [s[i] EXCEPT !.coefficient_index = @ - 1]])

DummyRow == [owner |-> 0, c |-> ZeroRow]

\* The scalars setSetup copies from the setup every population is built with:
\* infected individuals recover at rate 1; there is no contact within a
\* population, no mutation, no recombination and no death.
setup ==
    [contact_rate_host_host |-> 0, contact_rate_host_vector |-> 0,
     recovery_rate_host |-> 1, recovery_rate_vector |-> 1,
     mutate_in_host |-> 0, mutate_in_vector |-> 0,
     recombine_in_host |-> 0, recombine_in_vector |-> 0,
     death_rate_host |-> 0, death_rate_vector |-> 0]

\* Population.__init__ (not slim) for num_hosts >= 1 and num_vectors >= 1: the
\* matrices start as one dummy row, the constructors append one row each, the
\* dummy row is deleted and every index corrected; the population is its own
\* neighbor at rate 0.  Of the scalars setSetup copies (line 234) the record
\* keeps contact_rate_host_host, which getRates reads from the population.
PopulationStart ==
    [hosts |-> <<>>, vectors |-> <<>>,
     coefficients_hosts |-> <<DummyRow>>, coefficients_vectors |-> <<DummyRow>>,
     healthy_hosts |-> {}, infected_hosts |-> {}, infected_vectors |-> {},
     neighbors_hosts |-> <<>>, neighbors_vectors |-> <<>>,
     total_migration_rate_hosts |-> 0, total_migration_rate_vectors |-> 0,
     neighbors_contact_hosts |-> <<>>, neighbors_contact_vectors |-> <<>>,
     total_population_contact_rate_host_host |-> <<0, 1>>,
     total_population_contact_rate_host_vector |-> <<0, 1>>,
     total_population_contact_rate_vector_host |-> <<0, 1>>,
     contact_rate_host_host |-> setup.contact_rate_host_host]

\* A constructor that enters the population in its migration maps only
SelfNeighborMigrationOnly(M, id) ==
    setVectorMigrationNeighbor(setHostMigrationNeighbor(M, id, id, 0), id, id, 0)

SelfNeighbor(M, id) ==
    setVectorPopulationContactNeighbor(
        setHostPopulationContactNeighbor(
            setVectorMigrationNeighbor(
                setHostMigrationNeighbor(M, id, id, 0), id, id, 0), id, id, 0),
        id, id, 0)

PopulationInit(M, id, num_hosts, num_vectors) ==
    With(NewHosts([M EXCEPT ![id] = PopulationStart], id, 0, 0, num_hosts, <<>>),
         LAMBDA H :
    With(NewVectors(H.M, id, 0, 0, num_vectors, <<>>), LAMBDA V :
         SelfNeighbor([V.M EXCEPT
                         ![id].hosts = DecrementIndex(H.new),
                         ![id].vectors = DecrementIndex(V.new),
                         ![id].coefficients_hosts = RemoveAt(@, 1),
                         ![id].coefficients_vectors = RemoveAt(@, 1),
                         ![id].healthy_hosts = Uids(H.new)], id)))

addHosts(M, p, num_hosts) ==
    With(NewHosts(M, p, Len(M[p].hosts), 0, num_hosts, <<>>), LAMBDA made :
         [M |-> [made.M EXCEPT ![p].hosts = @ \o made.new,
                               ![p].healthy_hosts = @ \cup Uids(made.new)],
          new |-> made.new, exc |-> "none"])

addVectors(M, p, num_vectors) ==
    With(NewVectors(M, p, Len(M[p].vectors), 0, num_vectors, <<>>), LAMBDA made :
         [M |-> [made.M EXCEPT ![p].vectors = @ \o made.new],
          new |-> made.new, exc |-> "none"])

DecrementAbove(s, index) ==
    Tuple([i \in 1..Len(s) |-> IF s[i].coefficient_index > index
                               THEN [s[i] EXCEPT !.coefficient_index = @ - 1]
                               ELSE s[i]])

\* A removal that leaves the removed host in infected_hosts
removeHostAtStaysListed(M, p, pos, deleted) ==
    IF M[p].hosts[pos].uid \notin M[p].infected_hosts \cup M[p].healthy_hosts
    THEN Raise(M, "ValueError")
    ELSE [M |-> [M EXCEPT
                   ![p].healthy_hosts = @ \ {M[p].hosts[pos].uid},
                   ![p].hosts = DecrementAbove(RemoveAt(@, pos),
                                    M[p].hosts[pos].coefficient_index),
                   ![p].coefficients_hosts = deleted.arr],
          exc |-> deleted.exc]

\* The statements both branches of removeHosts run for the host_removed at
\* position pos (1-based) of self.hosts (lines 405-418 and 422-435).
removeHostAt(M, p, pos, deleted) ==
    IF M[p].hosts[pos].uid \notin M[p].infected_hosts \cup M[p].healthy_hosts
    THEN Raise(M, "ValueError")
    ELSE [M |-> [M EXCEPT
                   ![p].infected_hosts = @ \ {M[p].hosts[pos].uid},
                   ![p].healthy_hosts =
                       IF M[p].hosts[pos].uid \in M[p].infected_hosts THEN @
                       ELSE @ \ {M[p].hosts[pos].uid},
                   ![p].hosts = DecrementAbove(RemoveAt(@, pos),
                                    M[p].hosts[pos].coefficient_index),
                   ![p].coefficients_hosts = deleted.arr],
          exc |-> deleted.exc]

removeHostsBody(M, p, u, strict) ==
    With(PosOf(M[p].hosts, u), LAMBDA pos :
         removeHostAt(M, p, pos,
                      np_delete(M[p].coefficients_hosts,
                                M[p].hosts[pos].coefficient_index, strict)))

\* The statements both branches of removeVectors run for the vector_removed at
\* position pos (1-based) of self.vectors (lines 449-460 and 464-475): the row
\* is deleted from coefficients_hosts.
removeVectorAt(M, p, pos, deleted) ==
    [M |-> [M EXCEPT
              ![p].infected_vectors = @ \ {M[p].vectors[pos].uid},
              ![p].vectors = DecrementAbove(RemoveAt(@, pos),
                                 M[p].vectors[pos].coefficient_index),
              ![p].coefficients_hosts = deleted.arr],
     exc |-> deleted.exc]

removeVectorsBody(M, p, u, strict) ==
    With(PosOf(M[p].vectors, u), LAMBDA pos :
         removeVectorAt(M, p, pos,
                        np_delete(M[p].coefficients_hosts,
                                  M[p].vectors[pos].coefficient_index, strict)))

\* removeHosts(list): the loop of lines 403-418 over a list of objects
RECURSIVE removeHostsList(_, _, _, _)
removeHostsList(M, p, list, strict) ==
    IF list = <<>> THEN Ok(M)
    ELSE IF Head(list) \in Uids(M[p].hosts)
         THEN Then(removeHostsBody(M, p, Head(list), strict), LAMBDA M1 :
                   removeHostsList(M1, p, Tail(list), strict))
         ELSE removeHostsList(M, p, Tail(list), strict)

\* removeHosts(int): the loop of lines 420-435; choice[i] is what
\* np.random.choice(self.hosts) returns in iteration i, and choosing from an
\* empty list raises.
RECURSIVE removeHostsInt(_, _, _, _, _)
removeHostsInt(M, p, num_hosts, choice, strict) ==
    IF num_hosts <= 0 THEN Ok(M)
    ELSE IF M[p].hosts = <<>> THEN Raise(M, "ValueError")
    ELSE Then(removeHostsBody(M, p, Head(choice), strict), LAMBDA M1 :
              removeHostsInt(M1, p, num_hosts - 1, Tail(choice), strict))

RECURSIVE removeVectorsList(_, _, _, _)
removeVectorsList(M, p, list, strict) ==
    IF list = <<>> THEN Ok(M)
    ELSE IF Head(list) \in Uids(M[p].vectors)
         THEN Then(removeVectorsBody(M, p, Head(list), strict), LAMBDA M1 :
                   removeVectorsList(M1, p, Tail(list), strict))
         ELSE removeVectorsList(M, p, Tail(list), strict)

\* removeVectors(int): line 462 reads num_vectors, a name the method does not
\* bind, before the loop body runs.
removeVectorsInt(M, p, num_vectors_or_list, choice, strict) ==
    Raise(M, "NameError")

ValidGenome(p, genome) ==
    /\ Len(genome) = num_loci(p)
    /\ \A i \in 1..Len(genome) : genome[i] \in possible_alleles(p)[i]

UidList(s) == Tuple([i \in 1..Len(s) |-> s[i].uid])

\* The population whose live list holds the object (host.population)
HostPopulation(M, u) == CHOOSE p \in DOMAIN M : u \in Uids(M[p].hosts)
VectorPopulation(M, u) == CHOOSE p \in DOMAIN M : u \in Uids(M[p].vectors)

\* for host in rand_hosts: host.acquirePathogen(genome)
RECURSIVE HostsAcquire(_, _, _)
HostsAcquire(M, rand_hosts, genome) ==
    IF rand_hosts = <<>> THEN Ok(M)
    ELSE Then(HostAcquirePathogen(M, HostPopulation(M, Head(rand_hosts)),
                                  Head(rand_hosts), genome), LAMBDA M1 :
              HostsAcquire(M1, Tail(rand_hosts), genome))

RECURSIVE VectorsAcquire(_, _, _)
VectorsAcquire(M, rand_vectors, genome) ==
    IF rand_vectors = <<>> THEN Ok(M)
    ELSE Then(VectorAcquirePathogen(M, VectorPopulation(M, Head(rand_vectors)),
                                    Head(rand_vectors), genome), LAMBDA M1 :
              VectorsAcquire(M1, Tail(rand_vectors), genome))

\* addPathogensToHosts(genomes_numbers, hosts): genomes_numbers is the dict as
\* <<genome, number>> pairs in iteration order, hosts a list of objects, and
\* picks[k] what np.random.choice(hosts, number, replace=False) returns for the
\* k-th genome (it raises when number exceeds the size of the list).
RECURSIVE addPathogensToHosts(_, _, _, _, _)
addPathogensToHosts(M, p, genomes_numbers, hosts, picks) ==
    IF genomes_numbers = <<>> THEN Ok(M)
    ELSE IF ~ValidGenome(p, Head(genomes_numbers)[1]) THEN Raise(M, "ValueError")
    ELSE IF Head(genomes_numbers)[2] >
                (IF Len(hosts) = 0 THEN Len(M[p].hosts) ELSE Len(hosts))
         THEN Raise(M, "ValueError")
    ELSE Then(HostsAcquire(M, Head(picks), Head(genomes_numbers)[1]), LAMBDA M1 :
              addPathogensToHosts(M1, p, Tail(genomes_numbers), hosts, Tail(picks)))

RECURSIVE addPathogensToVectors(_, _, _, _, _)
addPathogensToVectors(M, p, genomes_numbers, vectors_, picks) ==
    IF genomes_numbers = <<>> THEN Ok(M)
    ELSE IF ~ValidGenome(p, Head(genomes_numbers)[1]) THEN Raise(M, "ValueError")
    ELSE IF Head(genomes_numbers)[2] >
                (IF Len(vectors_) = 0 THEN Len(M[p].vectors) ELSE Len(vectors_))
         THEN Raise(M, "ValueError")
    ELSE Then(VectorsAcquire(M, Head(picks), Head(genomes_numbers)[1]), LAMBDA M1 :
              addPathogensToVectors(M1, p, Tail(genomes_numbers), vectors_, Tail(picks)))

\* { g:1 for g in pathogens }
GenomesOf(pathogens) ==
    Tuple([i \in 1..Len(pathogens) |-> <<pathogens[i], 1>>])

\* The last two statements of the loop body of lines 762-767, for the dict
\* genomes: a new host in the target population receives the genomes.
arriveHost(M, target_pop, genomes) ==
    With(addHosts(M, target_pop, 1), LAMBDA added :
         addPathogensToHosts(added.M, target_pop, genomes, UidList(added.new),
                             Tuple([k \in 1..Len(genomes) |-> UidList(added.new)])))

\* One iteration of the loop of lines 762-767
migrateHost(M, p, target_pop, u, strict) ==
    Then(removeHostsList(M, p, <<u>>, strict), LAMBDA M1 :
         arriveHost(M1, target_pop,
                    GenomesOf(M[p].hosts[PosOf(M[p].hosts, u)].pathogens)))

arriveVector(M, target_pop, genomes) ==
    With(addVectors(M, target_pop, 1), LAMBDA added :
         addPathogensToVectors(added.M, target_pop, genomes, UidList(added.new),
                               Tuple([k \in 1..Len(genomes) |-> UidList(added.new)])))

\* One iteration of the loop of lines 769-774
migrateVector(M, p, target_pop, u, strict) ==
    Then(removeVectorsList(M, p, <<u>>, strict), LAMBDA M1 :
         arriveVector(M1, target_pop,
                      GenomesOf(M[p].vectors[PosOf(M[p].vectors, u)].pathogens)))

RECURSIVE migrateHosts(_, _, _, _, _)
migrateHosts(M, p, target_pop, migrating_hosts, strict) ==
    IF migrating_hosts = <<>> THEN Ok(M)
    ELSE Then(migrateHost(M, p, target_pop, Head(migrating_hosts), strict),
              LAMBDA M1 :
              migrateHosts(M1, p, target_pop, Tail(migrating_hosts), strict))

RECURSIVE migrateVectors(_, _, _, _, _)
migrateVectors(M, p, target_pop, migrating_vectors, strict) ==
    IF migrating_vectors = <<>> THEN Ok(M)
    ELSE Then(migrateVector(M, p, target_pop, Head(migrating_vectors), strict),
              LAMBDA M1 :
              migrateVectors(M1, p, target_pop, Tail(migrating_vectors), strict))

NonZero(r) == Cardinality({i \in 1..Len(r) : r[i] # 0})

\* Whether np.random.choice(a, size, replace=False, p=prob) accepts its
\* arguments: p as long as a, p summing to 1, and at least size non-zero
\* entries of p.
np_random_choice_ok(a, size, prob) ==
    /\ Len(prob) = Len(a)
    /\ SumSeq(prob) = 1
    /\ size <= NonZero(prob)

RandNone == <<0, 0>>

\* The lists migrating_hosts and migrating_vectors of lines 739-759 as
\* [hosts, vectors, exc].  With rand None, chosen_hosts and chosen_vectors are
\* what the two np.random.choice calls return; otherwise sel is what
\* getWeightedRandom returns for the one kind that migrates.
Migrating(P, num_hosts, num_vectors, rand, chosen_hosts, chosen_vectors, sel) ==
    IF rand = RandNone
    THEN IF /\ np_random_choice_ok(P.hosts, num_hosts,
                                   Column(P.coefficients_hosts, MIGRATION))
            /\ np_random_choice_ok(P.vectors, num_vectors,
                                   Column(P.coefficients_vectors, MIGRATION))
         THEN [hosts |-> chosen_hosts, vectors |-> chosen_vectors, exc |-> "none"]
         ELSE [hosts |-> <<>>, vectors |-> <<>>, exc |-> "ValueError"]
    ELSE IF sel = None
         THEN [hosts |-> <<>>, vectors |-> <<>>, exc |-> "TypeError"]
    ELSE IF num_hosts = 1
         THEN IF sel.index >= Len(P.hosts)
              THEN [hosts |-> <<>>, vectors |-> <<>>, exc |-> "IndexError"]
              ELSE [hosts |-> <<P.hosts[sel.index + 1].uid>>, vectors |-> <<>>,
                    exc |-> "none"]
    ELSE IF sel.index >= Len(P.vectors)
         THEN [hosts |-> <<>>, vectors |-> <<>>, exc |-> "IndexError"]
         ELSE [hosts |-> <<>>, vectors |-> <<P.vectors[sel.index + 1].uid>>,
               exc |-> "none"]

\* The two loops of lines 762-774
migrateLoops(M, p, target_pop, who, strict) ==
    IF who.exc # "none" THEN Raise(M, who.exc)
    ELSE Then(migrateHosts(M, p, target_pop, who.hosts, strict), LAMBDA M1 :
              migrateVectors(M1, p, target_pop, who.vectors, strict))

\* migrate(target_pop, num_hosts, num_vectors, rand)
migrate(M, p, target_pop, num_hosts, num_vectors, rand, chosen_hosts, chosen_vectors, strict) ==
    With(IF rand = RandNone THEN None
         ELSE getWeightedRandom(rand,
                  IF num_hosts = 1 THEN Column(M[p].coefficients_hosts, MIGRATION)
                  ELSE Column(M[p].coefficients_vectors, MIGRATION)), LAMBDA sel :
    With(Migrating(M[p], num_hosts, num_vectors, rand, chosen_hosts, chosen_vectors,
                   sel), LAMBDA who :
         migrateLoops(M, p, target_pop, who, strict)))

----------------------------------------------------------------------------
(* The model a run or a sequence of API calls starts from *)

NoPopulation ==
    [hosts |-> <<>>, vectors |-> <<>>,
     coefficients_hosts |-> <<>>, coefficients_vectors |-> <<>>,
     healthy_hosts |-> {}, infected_hosts |-> {}, infected_vectors |-> {},
     neighbors_hosts |-> <<>>, neighbors_vectors |-> <<>>,
     total_migration_rate_hosts |-> 0, total_migration_rate_vectors |-> 0,
     neighbors_contact_hosts |-> <<>>, neighbors_contact_vectors |-> <<>>,
     total_population_contact_rate_host_host |-> <<0, 1>>,
     total_population_contact_rate_host_vector |-> <<0, 1>>,
     total_population_contact_rate_vector_host |-> <<0, 1>>,
     contact_rate_host_host |-> setup.contact_rate_host_host]

\* The model layer links two constructed populations: migration of hosts and
\* of vectors at rate 1 in both directions, and a population contact rate of
\* 0 towards each other.
LinkMigration(M) ==
    setVectorMigrationNeighbor(
        setHostMigrationNeighbor(
            setVectorMigrationNeighbor(
                setHostMigrationNeighbor(M, "A", "B", 1), "A", "B", 1),
            "B", "A", 1),
        "B", "A", 1)

LinkContact(M) ==
    setVectorPopulationContactNeighbor(
        setHostPopulationContactNeighbor(
            setVectorPopulationContactNeighbor(
                setHostPopulationContactNeighbor(M, "A", "B", 0), "A", "B", 0),
            "B", "A", 0),
        "B", "A", 0)

\* Two populations constructed one after the other, then linked
NewModel(nhA, nvA, nhB, nvB) ==
    LinkContact(LinkMigration(
        PopulationInit(
            PopulationInit([p \in PopIds |-> NoPopulation], "A", nhA, nvA),
            "B", nhB, nvB)))

Draws == {<<k, DrawDen>> : k \in 0..(DrawDen - 1)}

\* Lists of k distinct elements of S
Samples(S, k) == {f \in [1..k -> S] : \A i, j \in 1..k : i # j => f[i] # f[j]}

Min(a, b) == IF a < b THEN a ELSE b

NoCall ==
    [op |-> "none", pop |-> "A", target |-> "A", kind |-> "none",
     exc |-> "none", pre |-> <<0, 0, 0, 0>>, who |-> <<>>, carried |-> <<>>,
     count |-> 0]

Counts(p, q) ==
    <<Len(populations[p].hosts), Len(populations[p].vectors),
      Len(populations[q].hosts), Len(populations[q].vectors)>>

\* The genomes the first of the individuals who carries (ghost)
Carried(live, who) ==
    IF who = <<>> THEN <<>> ELSE live[PosOf(live, who[1])].pathogens

\* Ghost record of a call: the operation, its population and target, the kind
\* of individual, the live counts before the call, the individuals it was
\* given or selected (who), the genomes it was given or the selected
\* individuals carried, and its count argument.
Call(op, p, q, kind, who, carried, count) ==
    [op |-> op, pop |-> p, target |-> q, kind |-> kind, exc |-> "none",
     pre |-> Counts(p, q), who |-> who, carried |-> carried, count |-> count]

\* Ghost record of a migrate call that selects the individuals who
MigrateCall(p, q, kind, who) ==
    Call("migrate", p, q, kind, who.hosts \o who.vectors,
         Carried(populations[p].hosts, who.hosts)
             \o Carried(populations[p].vectors, who.vectors), 1)

\* The call returned done = [M, exc]
Returns(done, call) ==
    /\ populations' = done.M
    /\ last' = [call EXCEPT !.exc = done.exc]
    /\ nops' = nops + 1
    /\ UNCHANGED <<numpy_strict, gw, interventions, sim>>

----------------------------------------------------------------------------
(* Rates are floating point numbers: exact fractions <<n, d>> in lowest terms
   with d > 0, or NaN, the value of 0/0 (the mean of an empty column). *)

NaN == <<0, 0>>

RECURSIVE Gcd(_, _)
Gcd(a, b) == IF b = 0 THEN a ELSE Gcd(b, a % b)

Abs(a) == IF a < 0 THEN -a ELSE a

Frac(n, d) ==
    IF d = 0 THEN NaN
    ELSE With(Gcd(Abs(n), d), LAMBDA g : <<n \div g, d \div g>>)

FInt(n) == <<n, 1>>
FAdd(x, y) ==
    With(x, LAMBDA a : With(y, LAMBDA b :
        Frac(a[1] * b[2] + b[1] * a[2], a[2] * b[2])))
FSub(x, y) ==
    With(x, LAMBDA a : With(y, LAMBDA b :
        Frac(a[1] * b[2] - b[1] * a[2], a[2] * b[2])))
FMul(x, y) ==
    With(x, LAMBDA a : With(y, LAMBDA b : Frac(a[1] * b[1], a[2] * b[2])))
FDiv(x, y) ==
    With(x, LAMBDA a : With(y, LAMBDA b :
        IF b[1] = 0 THEN NaN ELSE Frac(a[1] * b[2], a[2] * b[1])))

\* Every comparison with NaN is false
IsNaN(x) == x[2] = 0
FLess(x, y) == ~IsNaN(x) /\ ~IsNaN(y) /\ x[1] * y[2] < y[1] * x[2]
FEq(x, y) == ~IsNaN(x) /\ ~IsNaN(y) /\ x[1] * y[2] = y[1] * x[2]

\* The sum of s[lo..hi], adding the sums of its two halves
RECURSIVE FSumRange(_, _, _)
FSumRange(s, lo, hi) ==
    IF lo > hi THEN FInt(0)
    ELSE IF lo = hi THEN s[lo]
    ELSE FAdd(FSumRange(s, lo, (lo + hi) \div 2),
              FSumRange(s, ((lo + hi) \div 2) + 1, hi))

FSum(s) == With(s, LAMBDA v : FSumRange(v, 1, Len(v)))

\* column.mean()
Mean(col) == Frac(SumSeq(col), Len(col))

\* np.multiply(1 - matrix[:,c1], matrix[:,c2]).sum()
SumOneMinusTimes(matrix, c1, c2) ==
    SumSeq([i \in 1..Len(matrix) |-> (1 - matrix[i].c[c1 + 1]) * matrix[i].c[c2 + 1]])

----------------------------------------------------------------------------
(* Gillespie: event ids and getRates *)

MIGRATE_HOST == 0
MIGRATE_VECTOR == 1
POPULATION_CONTACT_HOST_HOST == 2
POPULATION_CONTACT_HOST_VECTOR == 3
POPULATION_CONTACT_VECTOR_HOST == 4
CONTACT_HOST_HOST == 5
CONTACT_HOST_VECTOR == 6
CONTACT_VECTOR_HOST == 7
RECOVER_HOST == 8
RECOVER_VECTOR == 9
MUTATE_HOST == 10
MUTATE_VECTOR == 11
RECOMBINE_HOST == 12
RECOMBINE_VECTOR == 13
KILL_HOST == 14
KILL_VECTOR == 15

evt_IDs ==
    <<MIGRATE_HOST, MIGRATE_VECTOR, POPULATION_CONTACT_HOST_HOST,
      POPULATION_CONTACT_HOST_VECTOR, POPULATION_CONTACT_VECTOR_HOST,
      CONTACT_HOST_HOST, CONTACT_HOST_VECTOR, CONTACT_VECTOR_HOST,
      RECOVER_HOST, RECOVER_VECTOR, MUTATE_HOST, MUTATE_VECTOR,
      RECOMBINE_HOST, RECOMBINE_VECTOR, KILL_HOST, KILL_VECTOR>>

\* list(self.model.populations.keys())
population_ids == <<"A", "B">>

\* The three sums of lines 93-118 for one population's neighbor map
ContactTotalHosts(M, neighbors, ids) ==
    FSum([j \in 1..Len(ids) |->
            FMul(FInt(DictGet(neighbors, ids[j])),
                 FSub(FInt(1), Mean(Column(M[ids[j]].coefficients_hosts,
                                           POPULATION_CONTACT))))])

ContactTotalVectors(M, neighbors, ids) ==
    FSum([j \in 1..Len(ids) |->
            FMul(FInt(DictGet(neighbors, ids[j])),
                 FSub(FInt(1), Mean(Column(M[ids[j]].coefficients_vectors,
                                           POPULATION_CONTACT))))])

\* Lines 93-118: getRates stores the one-sided population contact totals in
\* every population it visits
RECURSIVE StoreContactTotals(_, _, _)
StoreContactTotals(M, ids, i) ==
    IF i > Len(ids) THEN M
    ELSE With([M EXCEPT
                 ![ids[i]].total_population_contact_rate_host_host =
                     ContactTotalHosts(M, M[ids[i]].neighbors_contact_hosts, ids),
                 ![ids[i]].total_population_contact_rate_host_vector =
                     ContactTotalVectors(M, M[ids[i]].neighbors_contact_hosts, ids),
                 ![ids[i]].total_population_contact_rate_vector_host =
                     ContactTotalHosts(M, M[ids[i]].neighbors_contact_vectors, ids)],
              LAMBDA M1 : StoreContactTotals(M1, ids, i + 1))

\* Lines 121-270: the rate of event e in population P
Rate(P, e) ==
    CASE e = MIGRATE_HOST ->
           FInt(P.total_migration_rate_hosts
                * SumSeq(Column(P.coefficients_hosts, MIGRATION)))
      [] e = MIGRATE_VECTOR ->
           FInt(P.total_migration_rate_vectors
                * SumSeq(Column(P.coefficients_vectors, MIGRATION)))
      [] e = POPULATION_CONTACT_HOST_HOST ->
           FMul(FInt(SumOneMinusTimes(P.coefficients_hosts, POPULATION_CONTACT, INFECTED)),
                P.total_population_contact_rate_host_host)
      [] e = POPULATION_CONTACT_HOST_VECTOR ->
           FMul(FInt(SumOneMinusTimes(P.coefficients_hosts, POPULATION_CONTACT, INFECTED)),
                P.total_population_contact_rate_host_vector)
      [] e = POPULATION_CONTACT_VECTOR_HOST ->
           FMul(FInt(SumOneMinusTimes(P.coefficients_vectors, POPULATION_CONTACT, INFECTED)),
                P.total_population_contact_rate_vector_host)
      [] e = CONTACT_HOST_HOST ->
           FMul(FInt(P.contact_rate_host_host
                     * SumOneMinusTimes(P.coefficients_hosts, CONTACT, INFECTED)),
                FSub(FInt(1), Mean(Column(P.coefficients_hosts, CONTACT))))
      [] e = CONTACT_HOST_VECTOR ->
           FMul(FInt(setup.contact_rate_host_vector
                     * SumOneMinusTimes(P.coefficients_hosts, CONTACT, INFECTED)),
                FSub(FInt(1), Mean(Column(P.coefficients_vectors, CONTACT))))
      [] e = CONTACT_VECTOR_HOST ->
           FMul(FInt(setup.contact_rate_host_vector
                     * SumOneMinusTimes(P.coefficients_vectors, CONTACT, INFECTED)),
                FSub(FInt(1), Mean(Column(P.coefficients_hosts, CONTACT))))
      [] e = RECOVER_HOST ->
           FInt(setup.recovery_rate_host
                * SumSeq(Column(P.coefficients_hosts, RECOVERY)))
      [] e = RECOVER_VECTOR ->
           FInt(setup.recovery_rate_vector
                * SumSeq(Column(P.coefficients_vectors, RECOVERY)))
      [] e = MUTATE_HOST ->
           FInt(setup.mutate_in_host
                * SumSeq(Column(P.coefficients_hosts, MUTATION)))
      [] e = MUTATE_VECTOR ->
           FInt(setup.mutate_in_vector
                * SumSeq(Column(P.coefficients_vectors, MUTATION)))
      [] e = RECOMBINE_HOST ->
           FInt(setup.recombine_in_host
                * SumSeq(Column(P.coefficients_hosts, RECOMBINATION)))
      [] e = RECOMBINE_VECTOR ->
           FInt(setup.recombine_in_vector
                * SumSeq(Column(P.coefficients_vectors, RECOMBINATION)))
      [] e = KILL_HOST ->
           FInt(setup.death_rate_host
                * SumSeq(Column(P.coefficients_hosts, LETHALITY)))
      [] e = KILL_VECTOR ->
           FInt(setup.death_rate_vector
                * SumSeq(Column(P.coefficients_vectors, LETHALITY)))

RatesOf(M, ids) ==
    Tuple([e \in 1..Len(evt_IDs) |->
              Tuple([i \in 1..Len(ids) |-> Rate(M[ids[i]], evt_IDs[e])])])

\* getRates(population_ids): the populations as it leaves them and the matrix
\* rates[e][i], rows events and columns populations
getRates(M, ids) ==
    With(StoreContactTotals(M, ids, 1), LAMBDA M1 :
         [M |-> M1, rates |-> RatesOf(M1, ids)])

\* np.sum(r): the sum of the row sums
np_sum(r) == With(r, LAMBDA v : FSum([e \in 1..Len(v) |-> FSum(v[e])]))

----------------------------------------------------------------------------
(* Population: the event methods doAction calls *)

\* host.recover(): the host loses every pathogen, its row becomes the row of
\* a healthy host and it moves from infected_hosts to healthy_hosts
HostRecover(M, p, pos) ==
    IF M[p].hosts[pos].coefficient_index >= Len(M[p].coefficients_hosts)
    THEN Raise(M, "IndexError")
    ELSE Ok([M EXCEPT
               ![p].hosts[pos].pathogens = <<>>,
               ![p].coefficients_hosts[M[p].hosts[pos].coefficient_index + 1].c =
                   ZeroRow,
               ![p].infected_hosts = @ \ {M[p].hosts[pos].uid},
               ![p].healthy_hosts = @ \cup {M[p].hosts[pos].uid}])

VectorRecover(M, p, pos) ==
    IF M[p].vectors[pos].coefficient_index >= Len(M[p].coefficients_vectors)
    THEN Raise(M, "IndexError")
    ELSE Ok([M EXCEPT
               ![p].vectors[pos].pathogens = <<>>,
               ![p].coefficients_vectors[M[p].vectors[pos].coefficient_index + 1].c =
                   ZeroRow,
               ![p].infected_vectors = @ \ {M[p].vectors[pos].uid}])

\* "index, rand = self.getWeightedRandom(...)" cannot unpack None, and
\* "self.hosts[index]" needs the index to be in the list
recoverHostAt(M, p, sel) ==
    IF sel = None THEN Raise(M, "TypeError")
    ELSE IF sel.index >= Len(M[p].hosts) THEN Raise(M, "IndexError")
    ELSE HostRecover(M, p, sel.index + 1)

recoverHost(M, p, rand) ==
    With(getWeightedRandom(rand, Column(M[p].coefficients_hosts, RECOVERY)),
         LAMBDA sel : recoverHostAt(M, p, sel))

recoverVectorAt(M, p, sel) ==
    IF sel = None THEN Raise(M, "TypeError")
    ELSE IF sel.index >= Len(M[p].vectors) THEN Raise(M, "IndexError")
    ELSE VectorRecover(M, p, sel.index + 1)

recoverVector(M, p, rand) ==
    With(getWeightedRandom(rand, Column(M[p].coefficients_vectors, RECOVERY)),
         LAMBDA sel : recoverVectorAt(M, p, sel))

\* np.multiply(1 - matrix[:,c1], matrix[:,c2])
OneMinusTimes(matrix, c1, c2) ==
    [i \in 1..Len(matrix) |-> (1 - matrix[i].c[c1 + 1]) * matrix[i].c[c2 + 1]]

\* 1 - matrix[:,col]
OneMinus(matrix, col) == [i \in 1..Len(matrix) |-> 1 - matrix[i].c[col + 1]]

\* origin.infectHost(target) within population p, from the i-th genome the
\* origin carries on: the target acquires every genome it does not carry yet;
\* the result tells whether it acquired any.
RECURSIVE InfectHostFrom(_, _, _, _, _, _)
InfectHostFrom(M, p, genomes, i, target, changed) ==
    IF i > Len(genomes) THEN [M |-> M, changed |-> changed, exc |-> "none"]
    ELSE IF InSeq(genomes[i], M[p].hosts[target].pathogens)
         THEN InfectHostFrom(M, p, genomes, i + 1, target, changed)
         ELSE With(HostAcquireAt(M, p, target, genomes[i]), LAMBDA a :
                   IF a.exc # "none"
                   THEN [M |-> a.M, changed |-> TRUE, exc |-> a.exc]
                   ELSE InfectHostFrom(a.M, p, genomes, i + 1, target, TRUE))

HostInfectHost(M, p, origin, target) ==
    InfectHostFrom(M, p, M[p].hosts[origin].pathogens, 1, target, FALSE)

\* Lines 863-865 for the two selections made
contactHostHostAt(M, p, sel, other) ==
    IF sel = None \/ other = None
    THEN [M |-> M, changed |-> FALSE, exc |-> "TypeError"]
    ELSE IF sel.index >= Len(M[p].hosts) \/ other.index >= Len(M[p].hosts)
         THEN [M |-> M, changed |-> FALSE, exc |-> "IndexError"]
         ELSE HostInfectHost(M, p, sel.index + 1, other.index + 1)

\* contactHostHost(rand): returns [M, changed, exc]
contactHostHost(M, p, rand) ==
    With(getWeightedRandom(rand, OneMinusTimes(M[p].coefficients_hosts,
                                               CONTACT, INFECTED)), LAMBDA sel :
    With(getWeightedRandom(sel.rand, OneMinus(M[p].coefficients_hosts, CONTACT)),
         LAMBDA other : contactHostHostAt(M, p, sel, other)))

\* killHost binds index_vector and then reads index_host, a name it never
\* binds
killHost(M, p, rand) ==
    IF getWeightedRandom(rand, Column(M[p].coefficients_hosts, LETHALITY)) = None
    THEN Raise(M, "TypeError")
    ELSE Raise(M, "NameError")

----------------------------------------------------------------------------
(* Gillespie.doAction: returns [M, changed, exc] *)

Unchanged(M) == [M |-> M, changed |-> FALSE, exc |-> "none"]
Changed(res) ==
    With(res, LAMBDA a : [M |-> a.M, changed |-> a.exc = "none", exc |-> a.exc])

\* The loops of lines 292-299 and 304-311 from the i-th neighbor on; rand is
\* already scaled by the total migration rate
RECURSIVE doActionMigrate(_, _, _, _, _, _, _, _)
doActionMigrate(M, p, neighbors, i, r_cum_before, rand, num_hosts, strict) ==
    IF i > Len(neighbors) THEN Unchanged(M)
    ELSE IF FLess(rand, FInt(r_cum_before + neighbors[i][2]))
         THEN With(FDiv(FAdd(FSub(rand, FInt(r_cum_before + neighbors[i][2])),
                             FInt(neighbors[i][2])),
                        FInt(neighbors[i][2])), LAMBDA residual :
                   Changed(migrate(M, p, neighbors[i][1], num_hosts, 1 - num_hosts,
                                   residual, <<>>, <<>>, strict)))
         ELSE doActionMigrate(M, p, neighbors, i + 1, r_cum_before + neighbors[i][2],
                              rand, num_hosts, strict)

\* The loops of lines 316-328, 333-345 and 350-362: the call they make when
\* r_cum passes rand reads target_pop, a name doAction never binds.  means[i]
\* is the mean population contact coefficient of the i-th neighbor.
RECURSIVE doActionPopulationContact(_, _, _, _, _, _)
doActionPopulationContact(M, neighbors, means, i, r_cum_before, rand) ==
    IF i > Len(neighbors) THEN Unchanged(M)
    ELSE IF FLess(rand, FAdd(r_cum_before, FMul(FInt(neighbors[i][2]), means[i])))
         THEN [M |-> M, changed |-> FALSE, exc |-> "NameError"]
         ELSE doActionPopulationContact(M, neighbors, means, i + 1,
                  FAdd(r_cum_before, FMul(FInt(neighbors[i][2]), means[i])), rand)

MeansHosts(M, neighbors) ==
    [i \in 1..Len(neighbors) |->
        Mean(Column(M[neighbors[i][1]].coefficients_hosts, POPULATION_CONTACT))]

MeansVectors(M, neighbors) ==
    [i \in 1..Len(neighbors) |->
        Mean(Column(M[neighbors[i][1]].coefficients_vectors, POPULATION_CONTACT))]

\* The event classes whose rate is zero in every model built here lead into
\* the genome mechanics of Host and Vector (infection of and by vectors,
\* mutation, recombination, death of a vector); the scan of run never selects
\* a class of rate zero.
doAction(M, act, p, rand, strict) ==
    CASE act = MIGRATE_HOST ->
           doActionMigrate(M, p, M[p].neighbors_hosts, 1, 0,
               FMul(rand, FInt(M[p].total_migration_rate_hosts)), 1, strict)
      [] act = MIGRATE_VECTOR ->
           doActionMigrate(M, p, M[p].neighbors_vectors, 1, 0,
               FMul(rand, FInt(M[p].total_migration_rate_vectors)), 0, strict)
      [] act = POPULATION_CONTACT_HOST_HOST ->
           doActionPopulationContact(M, M[p].neighbors_contact_hosts,
               MeansHosts(M, M[p].neighbors_contact_hosts), 1, FInt(0),
               FMul(rand, M[p].total_population_contact_rate_host_host))
      [] act = POPULATION_CONTACT_HOST_VECTOR ->
           doActionPopulationContact(M, M[p].neighbors_contact_hosts,
               MeansVectors(M, M[p].neighbors_contact_hosts), 1, FInt(0),
               FMul(rand, M[p].total_population_contact_rate_host_vector))
      [] act = POPULATION_CONTACT_VECTOR_HOST ->
           doActionPopulationContact(M, M[p].neighbors_contact_vectors,
               MeansHosts(M, M[p].neighbors_contact_vectors), 1, FInt(0),
               FMul(rand, M[p].total_population_contact_rate_vector_host))
      [] act = CONTACT_HOST_HOST -> contactHostHost(M, p, rand)
      [] act = RECOVER_HOST -> Changed(recoverHost(M, p, rand))
      [] act = RECOVER_VECTOR -> Changed(recoverVector(M, p, rand))
      [] act = KILL_HOST -> Changed(killHost(M, p, rand))
      [] OTHER -> [M |-> M, changed |-> FALSE, exc |-> "OutsideModel"]

----------------------------------------------------------------------------
(* Gillespie.run: its locals, and one definition per stretch of its loop *)

\* Ghost record of the last event dispatched: its time, class and population,
\* the tracker at that moment, what doAction returned (changed) and whether
\* run recorded a snapshot for it
NoEvent ==
    [t |-> 0, e |-> -1, p |-> "A", intervention_tracker |-> 0,
     changed |-> FALSE, snapshot |-> FALSE]

\* pc is where run stands; applied (the registration numbers of the
\* interventions carried out, in order), event (the last event dispatched),
\* since (the number of events that changed the state since the loop last
\* recorded a snapshot) and did (what the last step did) are ghosts.
\* time_sampling holds the argument run is called with from before the call.
NoRun ==
    [pc |-> "idle", t0 |-> 0, tf |-> 0, t_var |-> 0, intervention_tracker |-> 0,
     r |-> <<>>, r_tot |-> FInt(0), sampling_counter |-> 0, time_sampling |-> 0,
     history |-> <<>>, exc |-> "none",
     applied |-> <<>>, event |-> NoEvent, since |-> 0, did |-> "none"]

\* sorted(self.model.interventions, key=lambda i: i.time): stable
RECURSIVE InsertByTime(_, _)
InsertByTime(list, x) ==
    IF list = <<>> THEN <<x>>
    ELSE IF x.time < Head(list).time THEN <<x>> \o list
    ELSE <<Head(list)>> \o InsertByTime(Tail(list), x)

\* The interventions left in registration order: what run would walk through
\* without line 437
unsorted(list) == list

RECURSIVE sorted(_)
sorted(list) ==
    IF list = <<>> THEN <<>>
    ELSE InsertByTime(sorted(SubSeq(list, 1, Len(list) - 1)), list[Len(list)])

\* Lines 433-442
RunStart(M, t0, tf, time_sampling) ==
    [NoRun EXCEPT !.pc = "while", !.t0 = t0, !.tf = tf, !.t_var = t0,
                  !.time_sampling = time_sampling,
                  !.history = <<<<0, M>>>>, !.did = "start"]

Rated(s, g) ==
    [M |-> g.M,
     sim |-> [s EXCEPT !.r = g.rates, !.r_tot = np_sum(g.rates), !.pc = "time",
                       !.did = "rates"]]

\* Line 444, then lines 445-447 or lines 549-553
LoopTest(M, s) ==
    IF s.t_var < s.tf
    THEN With(getRates(M, population_ids), LAMBDA g : Rated(s, g))
    ELSE [M |-> M,
          sim |-> [s EXCEPT !.history = DictSet(@, s.tf, M), !.pc = "returned",
                            !.did = "return"]]

\* intervention_tracker < len(interventions) and t_var >= the next one's time
Due(s, list) ==
    /\ s.intervention_tracker < Len(list)
    /\ s.t_var >= list[s.intervention_tracker + 1].time

\* Lines 454-456: where the positive branch goes after the clock advanced
AfterWait(s, list) ==
    [s EXCEPT !.pc = IF Due(s, list) THEN "intervene" ELSE "event", !.did = "wait"]

\* Time handling without line 547: with no rate and no intervention left the
\* clock stays where it is
TimeHandlingNoJump(s, list, dt) ==
    IF FLess(FInt(0), s.r_tot)
    THEN AfterWait([s EXCEPT !.t_var = @ + dt], list)
    ELSE IF s.intervention_tracker < Len(list)
         THEN [s EXCEPT !.pc = "zero", !.did = "none"]
         ELSE [s EXCEPT !.pc = "while", !.did = "jump"]

\* Lines 450-452 and 532-534, 546-547
TimeHandling(s, list, dt) ==
    IF FLess(FInt(0), s.r_tot)
    THEN AfterWait([s EXCEPT !.t_var = @ + dt], list)
    ELSE IF s.intervention_tracker < Len(list)
         THEN [s EXCEPT !.pc = "zero", !.did = "none"]
         ELSE [s EXCEPT !.t_var = s.tf, !.pc = "while", !.did = "jump"]

\* doIntervention(): what the registered function does to population A
doIntervention(M, act, pick, strict) ==
    CASE act = "addHosts" -> Ok(addHosts(M, "A", 1).M)
      [] act = "addPathogensToHosts" ->
           addPathogensToHosts(M, "A", <<<<(<<"a">>), 1>>>>, <<>>, <<pick>>)
      [] act = "removeHosts" -> removeHostsInt(M, "A", 1, pick, strict)

Raised(M, s, exc, did) ==
    [M |-> M, sim |-> [s EXCEPT !.pc = "raised", !.exc = exc, !.did = did]]

\* An intervention after which run keeps the rates it had
IntervenedKeepsRates(M, s, x) ==
    [M |-> M,
     sim |-> [s EXCEPT !.t_var = x.time,
                       !.intervention_tracker = @ + 1,
                       !.sampling_counter = 0,
                       !.history = DictSet(@, x.time, M),
                       !.since = 0,
                       !.applied = Append(@, x.reg),
                       !.did = "intervention"]]

\* Lines 468-481 after doIntervention returned leaving the populations M
Intervened(M, s, x) ==
    With(getRates(M, population_ids), LAMBDA g :
         [M |-> g.M,
          sim |-> [s EXCEPT !.t_var = x.time,
                            !.intervention_tracker = @ + 1,
                            !.sampling_counter = 0,
                            !.history = DictSet(@, x.time, M),
                            !.since = 0,
                            !.r = g.rates, !.r_tot = np_sum(g.rates),
                            !.applied = Append(@, x.reg),
                            !.did = "intervention"]])

InterveneOne(s, x, a) ==
    IF a.exc # "none" THEN Raised(a.M, s, a.exc, "intervention")
    ELSE Intervened(a.M, s, x)

\* One test of the while of lines 459-462 and, if it passes, its body
InterveneLoop(M, s, list, pick, strict) ==
    IF /\ s.intervention_tracker < Len(list)
       /\ \/ s.t_var >= list[s.intervention_tracker + 1].time
          \/ FEq(s.r_tot, FInt(0))
    THEN With(doIntervention(M, list[s.intervention_tracker + 1].act, pick, strict),
              LAMBDA a : InterveneOne(s, list[s.intervention_tracker + 1], a))
    ELSE [M |-> M, sim |-> [s EXCEPT !.pc = "redraw", !.did = "none"]]

\* Lines 483-488
Redraw(s, dt) ==
    IF FLess(FInt(0), s.r_tot)
    THEN [s EXCEPT !.t_var = @ + dt, !.pc = "event", !.did = "wait"]
    ELSE [s EXCEPT !.t_var = s.tf, !.pc = "event", !.did = "jump"]

\* Lines 542-545 after doIntervention returned: no snapshot, no new rates
ZeroIntervened(s, x, a) ==
    IF a.exc # "none" THEN Raised(a.M, s, a.exc, "intervention")
    ELSE [M |-> a.M,
          sim |-> [s EXCEPT !.t_var = x.time,
                            !.intervention_tracker = @ + 1,
                            !.applied = Append(@, x.reg),
                            !.did = "intervention"]]

\* One test of the while of lines 535-537 and, if it passes, its body
ZeroLoop(M, s, list, pick, strict) ==
    IF Due(s, list)
    THEN With(doIntervention(M, list[s.intervention_tracker + 1].act, pick, strict),
              LAMBDA a : ZeroIntervened(s, list[s.intervention_tracker + 1], a))
    ELSE [M |-> M, sim |-> [s EXCEPT !.pc = "while", !.did = "none"]]

NoSelection == [e |-> -1, p |-> 0, rand |-> NaN]

\* The scan of lines 494-500 over r[e,p] in row order, from the k-th entry on
RECURSIVE EventScan(_, _, _, _, _)

\* A scan that also stops when u equals the cumulative rate
RECURSIVE EventScanInclusive(_, _, _, _, _)
EventScanInclusive(r, width, k, r_cum_before, u) ==
    IF k > Len(r) * width THEN NoSelection
    ELSE With(FAdd(r_cum_before, r[((k - 1) \div width) + 1][((k - 1) % width) + 1]),
              LAMBDA r_cum :
         IF ~FLess(r_cum, u)
         THEN [e |-> (k - 1) \div width,
               p |-> ((k - 1) % width) + 1,
               rand |-> FDiv(FAdd(FSub(u, r_cum),
                                  r[((k - 1) \div width) + 1][((k - 1) % width) + 1]),
                             r[((k - 1) \div width) + 1][((k - 1) % width) + 1])]
         ELSE EventScanInclusive(r, width, k + 1, r_cum, u))

EventScan(r, width, k, r_cum_before, u) ==
    IF k > Len(r) * width THEN NoSelection
    ELSE With(FAdd(r_cum_before, r[((k - 1) \div width) + 1][((k - 1) % width) + 1]),
              LAMBDA r_cum :
         IF FLess(u, r_cum)
         THEN [e |-> (k - 1) \div width,
               p |-> ((k - 1) % width) + 1,
               rand |-> FDiv(FAdd(FSub(u, r_cum),
                                  r[((k - 1) \div width) + 1][((k - 1) % width) + 1]),
                             r[((k - 1) \div width) + 1][((k - 1) % width) + 1])]
         ELSE EventScan(r, width, k + 1, r_cum, u))

\* Sampling that records at the time_sampling-th changed event already
SampledOneEarly(s, changed, M) ==
    IF changed /\ s.time_sampling >= 0
    THEN IF s.sampling_counter + 1 >= s.time_sampling
         THEN [s EXCEPT !.sampling_counter = 0, !.history = DictSet(@, s.t_var, M),
                        !.event.snapshot = TRUE]
         ELSE [s EXCEPT !.sampling_counter = @ + 1]
    ELSE s

\* Sampling that does not look at what doAction returned
SampledWhateverChanged(s, changed, M) ==
    IF s.time_sampling >= 0
    THEN IF s.sampling_counter + 1 > s.time_sampling
         THEN [s EXCEPT !.sampling_counter = 0, !.history = DictSet(@, s.t_var, M),
                        !.event.snapshot = TRUE]
         ELSE [s EXCEPT !.sampling_counter = @ + 1]
    ELSE s

\* Lines 518-524
Sampled(s, changed, M) ==
    IF changed /\ s.time_sampling >= 0
    THEN IF s.sampling_counter + 1 > s.time_sampling
         THEN [s EXCEPT !.sampling_counter = 0, !.history = DictSet(@, s.t_var, M),
                        !.event.snapshot = TRUE]
         ELSE [s EXCEPT !.sampling_counter = @ + 1]
    ELSE s

\* The ghost count after an event: back to zero when the event was recorded
Counted(s, changed) ==
    [s EXCEPT !.since = IF s.event.snapshot THEN 0
                        ELSE IF changed THEN @ + 1 ELSE @]

Dispatched(s, sel, a) ==
    IF a.exc # "none" THEN Raised(a.M, s, a.exc, "event")
    ELSE [M |-> a.M,
          sim |-> Counted(
                      Sampled([s EXCEPT !.pc = "while", !.did = "event",
                                        !.event = [t |-> s.t_var, e |-> sel.e,
                                                   p |-> population_ids[sel.p],
                                                   intervention_tracker |->
                                                       s.intervention_tracker,
                                                   changed |-> a.changed,
                                                   snapshot |-> FALSE]],
                              a.changed, a.M),
                      a.changed)]

\* Lines 512-526 for the entry the scan stopped at, if any
Dispatch(M, s, sel, strict) ==
    IF sel.e = -1 THEN [M |-> M, sim |-> [s EXCEPT !.pc = "while", !.did = "none"]]
    ELSE With(doAction(M, sel.e, population_ids[sel.p], sel.rand, strict),
              LAMBDA a : Dispatched(s, sel, a))

\* Event handling that does not look at the clock
EventHandlingPastHorizon(M, s, random, strict) ==
    With(EventScan(s.r, Len(population_ids), 1, FInt(0), FMul(random, s.r_tot)),
         LAMBDA sel : Dispatch(M, s, sel, strict))

\* Lines 491-531
EventHandling(M, s, random, strict) ==
    IF s.t_var < s.tf
    THEN With(EventScan(s.r, Len(population_ids), 1, FInt(0), FMul(random, s.r_tot)),
              LAMBDA sel : Dispatch(M, s, sel, strict))
    ELSE [M |-> M, sim |-> [s EXCEPT !.pc = "while", !.did = "none"]]

----------------------------------------------------------------------------
(* Specification SpecPop: any sequence of Population API calls *)

InitPop ==
    /\ \E nhA, nvA \in 1..2 : populations = NewModel(nhA, nvA, 1, 1)
    /\ numpy_strict \in BOOLEAN
    /\ last = NoCall
    /\ nops = 0
    /\ gw = <<>>
    /\ interventions = <<>>
    /\ sim = NoRun

AddHosts(p, n) ==
    /\ nops < MaxOps
    /\ Len(populations[p].hosts) + n <= MaxInd
    /\ Returns(addHosts(populations, p, n),
               Call("addHosts", p, p, "host", <<>>, <<>>, n))

AddVectors(p, n) ==
    /\ nops < MaxOps
    /\ Len(populations[p].vectors) + n <= MaxInd
    /\ Returns(addVectors(populations, p, n),
               Call("addVectors", p, p, "vector", <<>>, <<>>, n))

AllHosts == UNION {Uids(populations[p].hosts) : p \in PopIds}
AllVectors == UNION {Uids(populations[p].vectors) : p \in PopIds}

\* removeHosts(list) with a list of one host of any population or of two hosts
\* of this one
RemoveHostsList(p) ==
    /\ nops < MaxOps
    /\ \E list \in Samples(AllHosts, 1) \cup Samples(Uids(populations[p].hosts), 2) :
          Returns(removeHostsList(populations, p, list, numpy_strict),
                  Call("removeHosts", p, p, "host", list, <<>>, Len(list)))

RemoveHostsInt(p, k) ==
    /\ nops < MaxOps
    /\ \E choice \in Samples(Uids(populations[p].hosts),
                             Min(k, Len(populations[p].hosts))) :
          Returns(removeHostsInt(populations, p, k, choice, numpy_strict),
                  Call("removeHostsInt", p, p, "host", choice, <<>>, k))

RemoveVectorsList(p) ==
    /\ nops < MaxOps
    /\ \E list \in Samples(AllVectors, 1) \cup Samples(Uids(populations[p].vectors), 2) :
          Returns(removeVectorsList(populations, p, list, numpy_strict),
                  Call("removeVectors", p, p, "vector", list, <<>>, Len(list)))

RemoveVectorsInt(p, k) ==
    /\ nops < MaxOps
    /\ \E choice \in Samples(Uids(populations[p].vectors),
                             Min(k, Len(populations[p].vectors))) :
          Returns(removeVectorsInt(populations, p, k, choice, numpy_strict),
                  Call("removeVectorsInt", p, p, "vector", choice, <<>>, k))

\* addPathogensToHosts({genome: 1}) on the whole population
AddPathogensToHosts(p, genome) ==
    /\ nops < MaxOps
    /\ \E pick \in Samples(Uids(populations[p].hosts),
                           Min(1, Len(populations[p].hosts))) :
          Returns(addPathogensToHosts(populations, p, <<<<genome, 1>>>>, <<>>, <<pick>>),
                  Call("addPathogensToHosts", p, p, "host", pick, <<genome>>, 1))

AddPathogensToVectors(p, genome) ==
    /\ nops < MaxOps
    /\ \E pick \in Samples(Uids(populations[p].vectors),
                           Min(1, Len(populations[p].vectors))) :
          Returns(addPathogensToVectors(populations, p, <<<<genome, 1>>>>, <<>>, <<pick>>),
                  Call("addPathogensToVectors", p, p, "vector", pick, <<genome>>, 1))

KindName(num_hosts) == IF num_hosts = 1 THEN "host" ELSE "vector"

\* migrate(q, 1, 0, rand) or migrate(q, 0, 1, rand) with a draw
MigrateDraw(p, q, num_hosts) ==
    /\ nops < MaxOps
    /\ Len(populations[q].hosts) < MaxInd /\ Len(populations[q].vectors) < MaxInd
    /\ \E rand \in Draws :
          Returns(migrate(populations, p, q, num_hosts, 1 - num_hosts, rand,
                          <<>>, <<>>, numpy_strict),
                  MigrateCall(p, q, KindName(num_hosts),
                      Migrating(populations[p], num_hosts, 1 - num_hosts, rand,
                          <<>>, <<>>,
                          getWeightedRandom(rand,
                              IF num_hosts = 1
                              THEN Column(populations[p].coefficients_hosts, MIGRATION)
                              ELSE Column(populations[p].coefficients_vectors, MIGRATION)))))

\* The individuals np.random.choice may return: those of non-zero probability
Eligible(live, matrix) ==
    {live[i].uid : i \in {j \in 1..Len(live) :
                             j <= Len(matrix) /\ matrix[j].c[MIGRATION + 1] # 0}}

\* migrate(q, 1, 0) or migrate(q, 0, 1) without a draw
MigrateChoice(p, q, num_hosts) ==
    /\ nops < MaxOps
    /\ Len(populations[q].hosts) < MaxInd /\ Len(populations[q].vectors) < MaxInd
    /\ \E ch \in Samples(Eligible(populations[p].hosts, populations[p].coefficients_hosts),
                         num_hosts),
          cv \in Samples(Eligible(populations[p].vectors, populations[p].coefficients_vectors),
                         1 - num_hosts) :
          Returns(migrate(populations, p, q, num_hosts, 1 - num_hosts, RandNone,
                          ch, cv, numpy_strict),
                  MigrateCall(p, q, KindName(num_hosts),
                      Migrating(populations[p], num_hosts, 1 - num_hosts,
                                RandNone, ch, cv, None)))

NextPop ==
    \/ \E p \in PopIds, n \in 1..2 : AddHosts(p, n)
    \/ \E p \in PopIds, n \in 1..2 : AddVectors(p, n)
    \/ \E p \in PopIds : RemoveHostsList(p)
    \/ \E p \in PopIds, k \in 1..2 : RemoveHostsInt(p, k)
    \/ \E p \in PopIds : RemoveVectorsList(p)
    \/ \E p \in PopIds, k \in 1..2 : RemoveVectorsInt(p, k)
    \/ \E p \in PopIds, genome \in Genomes : AddPathogensToHosts(p, genome)
    \/ \E p \in PopIds, genome \in Genomes : AddPathogensToVectors(p, genome)
    \/ \E p, q \in PopIds, num_hosts \in 0..1 : MigrateDraw(p, q, num_hosts)
    \/ \E p, q \in PopIds, num_hosts \in 0..1 : MigrateChoice(p, q, num_hosts)

SpecPop == InitPop /\ [][NextPop]_vars

----------------------------------------------------------------------------
(* Claims about the Population container, checked under SpecPop *)

ToSet(s) == {s[i] : i \in 1..Len(s)}

IndexIsPosition(live) ==
    \A i \in 1..Len(live) : live[i].coefficient_index = i - 1

\* C1: after any sequence of addHosts, addVectors, removeHosts, removeVectors
\* and migrate calls, every live host's coefficient_index is its position in
\* its population's hosts list, and every live vector's coefficient_index is
\* its position in the vectors list.
C1_RowIndexInvariant ==
    \A p \in PopIds : /\ IndexIsPosition(populations[p].hosts)
                      /\ IndexIsPosition(populations[p].vectors)

RowsBelong(matrix, live) ==
    /\ Len(matrix) = Len(live)
    /\ \A i \in 1..Len(live) : matrix[i].owner = live[i].uid

\* C2: in every population the host matrix has len(hosts) rows and the vector
\* matrix len(vectors) rows, and row i is the row of the individual at
\* position i.
C2_RowsBelongToIndividuals ==
    \A p \in PopIds :
        /\ RowsBelong(populations[p].coefficients_hosts, populations[p].hosts)
        /\ RowsBelong(populations[p].coefficients_vectors, populations[p].vectors)

\* A migrate call selected one individual to move to another population
MigratedOne ==
    /\ last.op = "migrate"
    /\ last.pop # last.target
    /\ Len(last.who) = 1

NewestGenomes(live) == IF live = <<>> THEN {} ELSE ToSet(live[Len(live)].pathogens)

\* C3: migrating one host (vector) from A to a different population B
\* decreases A's live count of that kind by 1, increases B's by 1, leaves the
\* counts of the other kind unchanged, and the new individual in B carries
\* exactly the genomes the migrating individual carried.
C3_MigrationConserves ==
    MigratedOne =>
        /\ Counts(last.pop, last.target) =
               IF last.kind = "host"
               THEN <<last.pre[1] - 1, last.pre[2], last.pre[3] + 1, last.pre[4]>>
               ELSE <<last.pre[1], last.pre[2] - 1, last.pre[3], last.pre[4] + 1>>
        /\ ToSet(last.carried) =
               IF last.kind = "host"
               THEN NewestGenomes(populations[last.target].hosts)
               ELSE NewestGenomes(populations[last.target].vectors)

----------------------------------------------------------------------------
(* getWeightedRandom as a function of its two arguments *)

WeightVectors == UNION {[1..n -> 0..MaxWeight] : n \in 0..MaxLen}

InitGW ==
    /\ populations = NewModel(1, 1, 1, 1)
    /\ numpy_strict = FALSE
    /\ last = NoCall
    /\ nops = 0
    /\ interventions = <<>>
    /\ sim = NoRun
    /\ \E r \in WeightVectors, rand \in Draws :
           gw = [r |-> r, rand |-> rand, done |-> FALSE, res |-> None]

GetWeightedRandom ==
    /\ ~gw.done
    /\ gw' = [gw EXCEPT !.done = TRUE, !.res = getWeightedRandom(gw.rand, gw.r)]
    /\ UNCHANGED <<populations, numpy_strict, last, nops, interventions, sim>>

NextGW == GetWeightedRandom

SpecGW == InitGW /\ [][NextGW]_vars

\* cumulative[k]: the sum of the first k weights
RECURSIVE Cumulative(_, _)
Cumulative(w, k) == IF k = 0 THEN 0 ELSE Cumulative(w, k - 1) + w[k]

\* cumulative[i-1] <= draw*S < cumulative[i] for the 0-based index i, with
\* draw = n/d and both sides multiplied by d
Brackets(w, n, d, i) ==
    /\ Cumulative(w, i) * d <= n * SumSeq(w)
    /\ n * SumSeq(w) < Cumulative(w, i + 1) * d

\* The returned residual equals (draw*S - cumulative[i-1]) / w[i] (compared by
\* cross-multiplication) and lies in [0,1)
ResidualOf(w, n, d, i, residual) ==
    /\ residual[2] > 0
    /\ residual[1] * (w[i + 1] * d) =
           (n * SumSeq(w) - Cumulative(w, i) * d) * residual[2]
    /\ 0 <= residual[1]
    /\ residual[1] < residual[2]

\* C4: for every non-negative weight vector w with sum S > 0 and every draw in
\* [0,1), getWeightedRandom(draw, w) returns (i, residual) where i is the
\* unique index with cumulative[i-1] <= draw*S < cumulative[i], w[i] > 0, and
\* residual = (draw*S - cumulative[i-1]) / w[i] lies in [0,1).
C4_WeightedRandomBrackets ==
    (gw # <<>> /\ gw.done /\ SumSeq(gw.r) > 0) =>
        /\ gw.res.index \in 0..(Len(gw.r) - 1)
        /\ Brackets(gw.r, gw.rand[1], gw.rand[2], gw.res.index)
        /\ \A j \in 0..(Len(gw.r) - 1) :
               Brackets(gw.r, gw.rand[1], gw.rand[2], j) => j = gw.res.index
        /\ gw.r[gw.res.index + 1] > 0
        /\ ResidualOf(gw.r, gw.rand[1], gw.rand[2], gw.res.index, gw.res.rand)

\* A draw that lands strictly inside a later weight after skipping a zero
\* weight and a positive one
C4_Witness ==
    /\ gw # <<>>
    /\ gw.done
    /\ Len(gw.r) = MaxLen
    /\ gw.r[1] = 0
    /\ gw.r[2] > 0
    /\ gw.res.index = 2
    /\ gw.res.rand[1] > 0

----------------------------------------------------------------------------
(* Specification SpecRun: one call of run(t0, Horizon) on a model of two
   linked populations with registered interventions *)

Acts == {"addHosts", "addPathogensToHosts", "removeHosts"}

Registered ==
    UNION {[1..n -> [time : 0..MaxTime, act : Acts]] : n \in 0..MaxInterventions}

Register(list) ==
    Tuple([i \in 1..Len(list) |->
              [time |-> list[i].time, act |-> list[i].act, reg |-> i]])

\* The model before the run: healthy, or with the first host of A infected
Seeded(M) == addPathogensToHosts(M, "A", <<<<(<<"a">>), 1>>>>, <<>>, <<(<<1>>)>>).M

InitRun ==
    /\ populations \in {NewModel(2, 1, 1, 1), Seeded(NewModel(2, 1, 1, 1))}
    /\ numpy_strict \in BOOLEAN
    /\ last = NoCall
    /\ nops = 0
    /\ gw = <<>>
    /\ \E list \in Registered : interventions = Register(list)
    /\ sim = NoRun

Steps(done) ==
    \E d \in {done} :
        /\ populations' = d.M
        /\ sim' = d.sim
        /\ UNCHANGED <<numpy_strict, last, nops, gw, interventions>>

Start ==
    /\ sim.pc = "idle"
    /\ \E t0 \in {0, 1} :
          sim' = RunStart(populations, t0, Horizon, sim.time_sampling)
    /\ interventions' = sorted(interventions)
    /\ UNCHANGED <<populations, numpy_strict, last, nops, gw>>

While ==
    /\ sim.pc = "while"
    /\ Steps(LoopTest(populations, sim))

Time ==
    /\ sim.pc = "time"
    /\ \E dt \in 1..MaxDt :
          Steps([M |-> populations, sim |-> TimeHandling(sim, interventions, dt)])

Picks(M) == Samples(Uids(M["A"].hosts), Min(1, Len(M["A"].hosts)))

Intervene ==
    /\ sim.pc = "intervene"
    /\ \E pick \in Picks(populations) :
          Steps(InterveneLoop(populations, sim, interventions, pick, numpy_strict))

Redrawn ==
    /\ sim.pc = "redraw"
    /\ \E dt \in 1..MaxDt : Steps([M |-> populations, sim |-> Redraw(sim, dt)])

Event ==
    /\ sim.pc = "event"
    /\ \E random \in Draws : Steps(EventHandling(populations, sim, random, numpy_strict))

Zero ==
    /\ sim.pc = "zero"
    /\ \E pick \in Picks(populations) :
          Steps(ZeroLoop(populations, sim, interventions, pick, numpy_strict))

NextRun == Start \/ While \/ Time \/ Intervene \/ Redrawn \/ Event \/ Zero

SpecRun == InitRun /\ [][NextRun]_vars

\* run is sequential code: whenever it can take a step it does
SpecRunFair == SpecRun /\ WF_vars(NextRun)

----------------------------------------------------------------------------
(* Claims about run, checked under SpecRun and SpecRunFair *)

\* The rate matrix of this iteration sums to zero and every intervention has
\* been applied, at the two places where run decides how to move the clock
ZeroSumAndDone ==
    /\ sim.pc \in {"time", "redraw"}
    /\ FEq(np_sum(sim.r), FInt(0))
    /\ sim.intervention_tracker = Len(interventions)

\* C5: whenever the rate matrix sums to zero and no unapplied intervention
\* remains, run sets the time to the horizon in that same iteration, dispatches
\* no event, and the loop ends: the step taken there sets t_var to tf and
\* dispatches nothing, event handling at the horizon dispatches nothing, and the
\* loop test at the horizon returns.
C5_ZeroSumJumpsToHorizon ==
    [][/\ ZeroSumAndDone =>
            /\ sim'.t_var = sim.tf
            /\ sim'.event = sim.event
            /\ sim'.pc \in {"while", "event"}
       /\ (sim.pc = "event" /\ sim.t_var >= sim.tf) =>
            /\ sim'.pc = "while"
            /\ sim'.t_var = sim.t_var
            /\ sim'.event = sim.event
       /\ (sim.pc = "while" /\ sim.t_var >= sim.tf) => sim'.pc = "returned"]_vars

\* An intervention removed the last source of events: the rates recomputed
\* after it sum to zero, nothing is left to apply, and run has jumped
C5_Witness ==
    /\ sim.did = "jump"
    /\ sim.pc = "event"
    /\ sim.t_var = sim.tf
    /\ FEq(np_sum(sim.r), FInt(0))
    /\ sim.intervention_tracker = Len(interventions)
    /\ Len(sim.applied) > 0

\* C6: run always terminates: even with a total rate of zero and an unapplied
\* intervention scheduled later than the current time, it ends by returning
\* (or by raising) instead of looping forever.
C6_RunTerminates == <>(sim.pc \in {"returned", "raised"})

\* C7: no event is dispatched at time t while an intervention scheduled at a
\* time <= t is unapplied: when the last event was dispatched, every
\* intervention from the tracker on was scheduled later than the event's time.
C7_NoEventBeforeDueIntervention ==
    sim.event.e # -1 =>
        \A i \in (sim.event.intervention_tracker + 1)..Len(interventions) :
            interventions[i].time > sim.event.t

\* The scheduled time of the intervention registered as number reg
TimeOfReg(reg) == (CHOOSE x \in ToSet(interventions) : x.reg = reg).time

\* C8: interventions are applied in nondecreasing order of scheduled time
\* whatever the order of registration, and each at most once.
C8_InterventionsInTimeOrder ==
    \A i, j \in 1..Len(sim.applied) :
        i < j => /\ TimeOfReg(sim.applied[i]) <= TimeOfReg(sim.applied[j])
                 /\ sim.applied[i] # sim.applied[j]

\* Two interventions registered latest first, both applied
C8_Witness ==
    /\ Len(sim.applied) = 2
    /\ sim.applied[1] = 2
    /\ sim.applied[2] = 1
    /\ TimeOfReg(2) < TimeOfReg(1)

\* What a snapshot and the live model are compared on: the individuals and the
\* coefficient matrices (getRates rewrites the contact totals after a snapshot)
Observed(M) ==
    [p \in PopIds |-> <<M[p].hosts, M[p].vectors, M[p].coefficients_hosts,
                        M[p].coefficients_vectors>>]

LastApplied == TimeOfReg(sim.applied[Len(sim.applied)])

\* C9: every intervention applied during run, whether the total rate was
\* positive or zero, is immediately followed by a snapshot in history keyed by
\* its scheduled time: right after an intervention history holds, under that
\* time, the model as the intervention left it.
C9_InterventionThenSnapshot ==
    (sim.did = "intervention" /\ sim.pc # "raised") =>
        /\ DictHas(sim.history, LastApplied)
        /\ Observed(DictGet(sim.history, LastApplied)) = Observed(populations)

InRun(t) == sim.t0 <= t /\ t <= sim.tf

\* C10: throughout run(t0, horizon) the time of every applied intervention, of
\* every dispatched event and of every history key lies in [t0, horizon].
C10_TimesWithinRun ==
    sim.pc # "idle" =>
        /\ \A i \in 1..Len(sim.applied) : InRun(TimeOfReg(sim.applied[i]))
        /\ sim.event.e # -1 => InRun(sim.event.t)
        /\ \A i \in 1..Len(sim.history) : InRun(sim.history[i][1])

\* C11: the history of run(t0, horizon) contains a snapshot keyed by t0, for
\* every t0 and not only for t0 = 0: when run has returned, t0 is a key of
\* history.
C11_HistoryKeyedByStart == sim.pc = "returned" => DictHas(sim.history, sim.t0)

\* C12: when run returns, history holds under the horizon a copy of the final
\* model, that entry is the last one of history, and the keys of history stand
\* in nondecreasing order of time.
C12_FinalSnapshotLast ==
    sim.pc = "returned" =>
        /\ DictHas(sim.history, sim.tf)
        /\ Observed(DictGet(sim.history, sim.tf)) = Observed(populations)
        /\ sim.history[Len(sim.history)][1] = sim.tf
        /\ \A i, j \in 1..Len(sim.history) :
              i < j => sim.history[i][1] <= sim.history[j][1]

----------------------------------------------------------------------------
(* The event selection of run as a function of the rate matrix and the draw *)

\* Rate matrices of MaxRows event classes by one column per population
RateMatrices == [1..MaxRows -> [1..Len(population_ids) -> 0..MaxWeight]]

AsRates(w) == Tuple([e \in 1..Len(w) |-> Tuple([p \in 1..Len(w[e]) |-> FInt(w[e][p])])])

InitScan ==
    /\ populations = NewModel(1, 1, 1, 1)
    /\ numpy_strict = FALSE
    /\ last = NoCall
    /\ nops = 0
    /\ interventions = <<>>
    /\ sim = NoRun
    /\ \E w \in RateMatrices, random \in Draws :
           gw = [w |-> w, random |-> random, done |-> FALSE, sel |-> NoSelection]

\* Lines 492-500: u = random * r_tot, then the scan
SelectEvent ==
    /\ ~gw.done
    /\ gw' = [gw EXCEPT !.done = TRUE,
                        !.sel = With(AsRates(gw.w), LAMBDA r :
                                    EventScan(r, Len(population_ids), 1, FInt(0),
                                              FMul(gw.random, np_sum(r))))]
    /\ UNCHANGED <<populations, numpy_strict, last, nops, interventions, sim>>

NextScan == SelectEvent

SpecScan == InitScan /\ [][NextScan]_vars

\* The rates in row-major order: event class outer, population inner
RowMajor(w) ==
    [k \in 1..(Len(w) * Len(population_ids)) |->
        w[((k - 1) \div Len(population_ids)) + 1][((k - 1) % Len(population_ids)) + 1]]

\* 0-based position in row-major order of the selected cell
CellOf(sel) == sel.e * Len(population_ids) + (sel.p - 1)

\* C13: for a rate matrix with total > 0 and u = random * total, the selected
\* (event class, population) is the first cell in row-major order whose running
\* cumulative sum exceeds u; that cell's rate is positive, and the draw handed
\* to doAction equals (u - cumulative sum before the cell) / rate and lies in
\* [0,1).  One cell is selected: the scan never ends without one.
C13_FirstCellPastDraw ==
    (gw # <<>> /\ gw.done /\ SumSeq(RowMajor(gw.w)) > 0) =>
        /\ gw.sel.e \in 0..(MaxRows - 1)
        /\ gw.sel.p \in 1..Len(population_ids)
        /\ Brackets(RowMajor(gw.w), gw.random[1], gw.random[2], CellOf(gw.sel))
        /\ \A j \in 0..(CellOf(gw.sel) - 1) :
               ~Brackets(RowMajor(gw.w), gw.random[1], gw.random[2], j)
        /\ gw.w[gw.sel.e + 1][gw.sel.p] > 0
        /\ ResidualOf(RowMajor(gw.w), gw.random[1], gw.random[2], CellOf(gw.sel),
                      gw.sel.rand)

\* The draw passes a whole event class and a zero rate, and lands strictly
\* inside a cell of the next class
C13_Witness ==
    /\ gw # <<>>
    /\ gw.done
    /\ gw.w[1][1] = 0
    /\ gw.w[1][2] > 0
    /\ gw.sel.e = MaxRows - 1
    /\ gw.sel.p = 2
    /\ gw.w[MaxRows][1] > 0
    /\ gw.sel.rand[1] > 0

----------------------------------------------------------------------------
(* Specification SpecSample: one call of run(t0, Horizon, time_sampling) on a
   model where hosts of population A contact each other *)

\* Population A built with a setup whose contact_rate_host_host is 2
WithContact(M) == [M EXCEPT !["A"].contact_rate_host_host = 2]

RegisteredFew == UNION {[1..n -> [time : 0..MaxTime, act : Acts]] : n \in 0..1}

InitSample ==
    /\ populations = Seeded(WithContact(NewModel(2, 1, 1, 1)))
    /\ numpy_strict \in BOOLEAN
    /\ last = NoCall
    /\ nops = 0
    /\ gw = <<>>
    /\ \E list \in RegisteredFew : interventions = Register(list)
    /\ \E k \in -1..MaxSampling : sim = [NoRun EXCEPT !.time_sampling = k]

SpecSample == InitSample /\ [][NextRun]_vars

\* A step of run that dispatched an event and came back from doAction
EventStep == sim.pc = "event" /\ sim'.did = "event" /\ sim'.pc = "while"

\* C14: with time_sampling = k >= 0 run records an event snapshot exactly at
\* every (k+1)-th state-changing event counted since the last recorded snapshot
\* (of an event or of an intervention); with time_sampling < 0 it never records
\* an event snapshot.  A recorded snapshot is the model under the event's time;
\* an event that is not recorded leaves history as it was.
C14_SnapshotEveryKPlusOne ==
    [][EventStep =>
        /\ sim'.event.snapshot <=>
               /\ sim.time_sampling >= 0
               /\ sim'.event.changed
               /\ sim.since = sim.time_sampling
        /\ sim'.event.snapshot =>
               /\ DictHas(sim'.history, sim.t_var)
               /\ Observed(DictGet(sim'.history, sim.t_var)) = Observed(populations')
        /\ ~sim'.event.snapshot => sim'.history = sim.history]_vars

\* With time_sampling = 1 a first changing event went unrecorded and the
\* second one has just been recorded
C14_Witness ==
    /\ sim.time_sampling = 1
    /\ sim.did = "event"
    /\ sim.event.changed
    /\ sim.event.snapshot
    /\ sim.since = 0

\* C15: when a dispatched contact event reports that no state changed, run
\* adds no entry to history and does not advance the sampling counter.
C15_NoSnapshotWithoutChange ==
    [][(EventStep /\ sim'.event.e = CONTACT_HOST_HOST /\ ~sim'.event.changed) =>
        /\ sim'.history = sim.history
        /\ sim'.sampling_counter = sim.sampling_counter]_vars

\* A contact between two hosts that infected nobody, in a run that samples
C15_Witness ==
    /\ sim.did = "event"
    /\ sim.pc = "while"
    /\ sim.event.e = CONTACT_HOST_HOST
    /\ ~sim.event.changed
    /\ sim.time_sampling >= 0

----------------------------------------------------------------------------
(* Specification SpecAdd: addPathogensToHosts and addPathogensToVectors called
   with mappings of one or two genomes *)

Numbers == 1..2

\* genomes_numbers: one genome, or two different genomes in iteration order
GenomeMaps ==
    {<<<<g, n>>>> : g \in Genomes, n \in Numbers}
        \cup {<<<<gg[1], n1>>, <<gg[2], n2>>>> :
                  gg \in Samples(Genomes, 2), n1 \in Numbers, n2 \in Numbers}

\* What np.random.choice may return for each genome of the mapping in turn
PicksFor(pool, genomes_numbers) ==
    {f \in [1..Len(genomes_numbers) -> UNION {Samples(pool, k) : k \in 0..2}] :
        \A i \in 1..Len(genomes_numbers) :
            Len(f[i]) = Min(genomes_numbers[i][2], Cardinality(pool))}

AddPathogensToHostsMap(p) ==
    /\ nops < MaxOps
    /\ \E gn \in GenomeMaps :
          \E picks \in PicksFor(Uids(populations[p].hosts), gn) :
              Returns(addPathogensToHosts(populations, p, gn, <<>>, Tuple(picks)),
                      Call("addPathogensToHosts", p, p, "host", <<>>, <<>>, Len(gn)))

AddPathogensToVectorsMap(p) ==
    /\ nops < MaxOps
    /\ \E gn \in GenomeMaps :
          \E picks \in PicksFor(Uids(populations[p].vectors), gn) :
              Returns(addPathogensToVectors(populations, p, gn, <<>>, Tuple(picks)),
                      Call("addPathogensToVectors", p, p, "vector", <<>>, <<>>, Len(gn)))

NextAdd ==
    \/ \E p \in PopIds : AddPathogensToHostsMap(p)
    \/ \E p \in PopIds : AddPathogensToVectorsMap(p)

SpecAdd == InitPop /\ [][NextAdd]_vars

\* C16: when addPathogensToHosts or addPathogensToVectors raises a validation
\* error for any genome of the mapping, the population state is exactly as
\* before the call: no individual acquired a genome from that call, genomes
\* listed earlier in the mapping included.
C16_FailedAddLeavesState ==
    [][(/\ nops' = nops + 1
        /\ last'.op \in {"addPathogensToHosts", "addPathogensToVectors"}
        /\ last'.exc = "ValueError") => populations' = populations]_vars

----------------------------------------------------------------------------
(* migrate that fails, checked under SpecPop *)

\* C17: if the pathogen transfer into the target population fails during
\* migrate, the migration has no effect: the migrating individual is still
\* live in the origin population and the target has gained no individual.
C17_FailedMigrateHasNoEffect ==
    (last.op = "migrate" /\ last.exc = "ValueError" /\ last.who # <<>>) =>
        /\ Counts(last.pop, last.target) = last.pre
        /\ \A i \in 1..Len(last.who) :
              last.who[i] \in (IF last.kind = "host"
                               THEN Uids(populations[last.pop].hosts)
                               ELSE Uids(populations[last.pop].vectors))

----------------------------------------------------------------------------
(* newHostGroup and newVectorGroup: random groups of individuals. The count
   is a number: a fraction <<n, d>>; perm is the order in which this call's
   np.random.choice would draw the whole population. *)

\* num_hosts: the whole pool, a fraction of it, or the number given
GroupSize(hosts, length) ==
    IF FLess(hosts, FInt(0)) THEN length
    ELSE IF FLess(hosts, FInt(1)) THEN (hosts[1] * length) \div hosts[2]
    ELSE hosts[1]

\* np.random.choice(possible, num, replace=False): the first num of the
\* possible individuals in the order drawn
RECURSIVE np_random_choice(_, _, _)
np_random_choice(possible, num, perm) ==
    IF num = 0 \/ perm = <<>> THEN <<>>
    ELSE IF Head(perm) \in possible
    THEN <<Head(perm)>> \o np_random_choice(possible, num - 1, Tail(perm))
    ELSE np_random_choice(possible, num, Tail(perm))

Grouped(M, group, exc) == [M |-> M, group |-> group, exc |-> exc]

GroupOf(M, possible, hosts, perm) ==
    With(GroupSize(hosts, Cardinality(possible)), LAMBDA num :
        IF Cardinality(possible) >= num
        THEN Grouped(M, np_random_choice(possible, num, perm), "none")
        ELSE Grouped(M, <<>>, "ValueError"))

newHostGroupStrict(M, p, hosts, type, perm) ==
    IF type \notin {"healthy", "infected", "any"}
    THEN Grouped(M, <<>>, "ValueError")
    ELSE With(IF type = "healthy" THEN M[p].healthy_hosts
              ELSE IF type = "infected" THEN M[p].infected_hosts
              ELSE Uids(M[p].hosts),
              LAMBDA possible_hosts :
                  With(GroupSize(hosts, Cardinality(possible_hosts)), LAMBDA num_hosts :
                      IF Cardinality(possible_hosts) > num_hosts
                      THEN Grouped(M, np_random_choice(possible_hosts, num_hosts, perm), "none")
                      ELSE Grouped(M, <<>>, "ValueError")))

newHostGroup(M, p, hosts, type, perm) ==
    IF type \notin {"healthy", "infected", "any"}
    THEN Grouped(M, <<>>, "ValueError")
    ELSE With(IF type = "healthy" THEN M[p].healthy_hosts
              ELSE IF type = "infected" THEN M[p].infected_hosts
              ELSE Uids(M[p].hosts),
              LAMBDA possible_hosts :
                  With(GroupSize(hosts, Cardinality(possible_hosts)), LAMBDA num_hosts :
                      IF Cardinality(possible_hosts) >= num_hosts
                      THEN Grouped(M, np_random_choice(possible_hosts, num_hosts, perm), "none")
                      ELSE Grouped(M, <<>>, "ValueError")))

newVectorGroup(M, p, vectors, type, perm) ==
    IF type \notin {"healthy", "infected", "any"}
    THEN Grouped(M, <<>>, "ValueError")
    ELSE With(IF type = "healthy" THEN Uids(M[p].vectors) \ M[p].infected_vectors
              ELSE IF type = "infected" THEN M[p].infected_vectors
              ELSE Uids(M[p].vectors),
              LAMBDA possible_vectors : GroupOf(M, possible_vectors, vectors, perm))

----------------------------------------------------------------------------
(* Specification SpecGroup: groups are asked of populations that gain
   individuals and infections *)

GroupNumbers ==
    {FInt(-1), FInt(0), Frac(1, 2), Frac(2, 3)} \cup {FInt(k) : k \in 1..MaxInd}

GroupTypes == {"healthy", "infected", "any", "other"}

\* Ghost record of a group call: what was asked and the group returned (who)
GroupCall(op, p, kind, number, type, done) ==
    [op |-> op, pop |-> p, target |-> p, kind |-> kind, exc |-> "none",
     pre |-> Counts(p, p), who |-> done.group, carried |-> <<>>, count |-> 0,
     number |-> number, type |-> type]

NewHostGroup(p) ==
    /\ nops < MaxOps
    /\ \E hosts \in GroupNumbers, type \in GroupTypes :
          \E perm \in Samples(Uids(populations[p].hosts), Len(populations[p].hosts)) :
              \E done \in {newHostGroup(populations, p, hosts, type, perm)} :
                  Returns(done, GroupCall("newHostGroup", p, "host", hosts, type, done))

NewVectorGroup(p) ==
    /\ nops < MaxOps
    /\ \E vectors \in GroupNumbers, type \in GroupTypes :
          \E perm \in Samples(Uids(populations[p].vectors), Len(populations[p].vectors)) :
              \E done \in {newVectorGroup(populations, p, vectors, type, perm)} :
                  Returns(done, GroupCall("newVectorGroup", p, "vector", vectors, type, done))

NextGroup ==
    \/ \E p \in PopIds : AddHosts(p, 1)
    \/ \E p \in PopIds : AddVectors(p, 1)
    \/ \E p \in PopIds, g \in Genomes : AddPathogensToHosts(p, g)
    \/ \E p \in PopIds, g \in Genomes : AddPathogensToVectors(p, g)
    \/ \E p \in PopIds : NewHostGroup(p)
    \/ \E p \in PopIds : NewVectorGroup(p)

SpecGroup == InitPop /\ [][NextGroup]_vars

\* The individuals of population p that a group of the given type is drawn from
PoolOf(p, kind, type) ==
    LET live == IF kind = "host" THEN populations[p].hosts ELSE populations[p].vectors
    IN  {live[i].uid : i \in {j \in 1..Len(live) :
                                \/ type = "any"
                                \/ type = "healthy" /\ live[j].pathogens = <<>>
                                \/ type = "infected" /\ live[j].pathogens # <<>>}}

\* C18: newHostGroup and newVectorGroup never change the population; they
\* raise when the type is not healthy, infected or any, or when more
\* individuals are asked for than the pool of that type holds; otherwise they
\* return distinct members of the pool: all of it for a count below 0, the
\* floor of count times the pool size for a count in [0, 1), and exactly count
\* for a count of 1 or more.
C18_GroupFromPool ==
    [][(nops' = nops + 1 /\ last'.op \in {"newHostGroup", "newVectorGroup"}) =>
          LET c == last'
              pool == PoolOf(c.pop, c.kind, c.type)
              size == Cardinality(pool)
              asked == IF c.number[1] < 0 THEN size
                       ELSE IF c.number[1] < c.number[2]
                       THEN (c.number[1] * size) \div c.number[2]
                       ELSE c.number[1]
          IN  /\ populations' = populations
              /\ c.type \notin {"healthy", "infected", "any"} => c.exc = "ValueError"
              /\ (c.type \in {"healthy", "infected", "any"} /\ asked > size) =>
                     c.exc = "ValueError"
              /\ (c.type \in {"healthy", "infected", "any"} /\ asked <= size) =>
                     /\ c.exc = "none"
                     /\ Len(c.who) = asked
                     /\ \A i \in 1..Len(c.who) : c.who[i] \in pool
                     /\ \A i, j \in 1..Len(c.who) : i # j => c.who[i] # c.who[j]]_vars

\* A group of two of three hosts was returned for the fraction 2/3
C18_Witness ==
    /\ last.op = "newHostGroup"
    /\ last.number = Frac(2, 3)
    /\ last.type = "any"
    /\ last.exc = "none"
    /\ Len(populations[last.pop].hosts) = 3
    /\ Len(last.who) = 2

----------------------------------------------------------------------------
(* treatHosts, and Specification SpecHosts: any sequence of addHosts,
   removeHosts, addPathogensToHosts, treatHosts and migrate calls and of host
   events of positive rate *)

\* A genome survives treatment if it holds every resistance sequence (one allele each)
Resistant(genome, resistance_seqs) ==
    \A i \in 1..Len(resistance_seqs) : InSeq(resistance_seqs[i], genome)

\* host.applyTreatment(resistance_seqs) for the host at position pos: the
\* genomes that are not resistant go; a host left without pathogens gets the
\* row of a healthy host and moves from infected_hosts to healthy_hosts
HostApplyTreatment(M, p, pos, resistance_seqs) ==
    With(SelectSeq(M[p].hosts[pos].pathogens,
                   LAMBDA g : Resistant(g, resistance_seqs)), LAMBDA left :
        IF M[p].hosts[pos].coefficient_index >= Len(M[p].coefficients_hosts)
        THEN Raise(M, "IndexError")
        ELSE IF left # <<>>
        THEN Ok([M EXCEPT ![p].hosts[pos].pathogens = left])
        ELSE Ok([M EXCEPT
                   ![p].hosts[pos].pathogens = <<>>,
                   ![p].coefficients_hosts[M[p].hosts[pos].coefficient_index + 1].c =
                       ZeroRow,
                   ![p].infected_hosts = @ \ {M[p].hosts[pos].uid},
                   ![p].healthy_hosts = @ \cup {M[p].hosts[pos].uid}]))

\* for host in treat_hosts: host.applyTreatment(resistance_seqs)
RECURSIVE HostsTreated(_, _, _, _)
HostsTreated(M, p, treat_hosts, resistance_seqs) ==
    IF treat_hosts = <<>> THEN Ok(M)
    ELSE Then(HostApplyTreatment(M, p, PosOf(M[p].hosts, Head(treat_hosts)),
                                 resistance_seqs),
              LAMBDA M1 : HostsTreated(M1, p, Tail(treat_hosts), resistance_seqs))

\* vector.applyTreatment(resistance_seqs) for the vector at position pos
VectorApplyTreatment(M, p, pos, resistance_seqs) ==
    With(SelectSeq(M[p].vectors[pos].pathogens,
                   LAMBDA g : Resistant(g, resistance_seqs)), LAMBDA left :
        IF M[p].vectors[pos].coefficient_index >= Len(M[p].coefficients_vectors)
        THEN Raise(M, "IndexError")
        ELSE IF left # <<>>
        THEN Ok([M EXCEPT ![p].vectors[pos].pathogens = left])
        ELSE Ok([M EXCEPT
                   ![p].vectors[pos].pathogens = <<>>,
                   ![p].coefficients_vectors[M[p].vectors[pos].coefficient_index + 1].c =
                       ZeroRow,
                   ![p].infected_vectors = @ \ {M[p].vectors[pos].uid}]))

RECURSIVE VectorsTreated(_, _, _, _)
VectorsTreated(M, p, treat_vectors, resistance_seqs) ==
    IF treat_vectors = <<>> THEN Ok(M)
    ELSE Then(VectorApplyTreatment(M, p, PosOf(M[p].vectors, Head(treat_vectors)),
                                   resistance_seqs),
              LAMBDA M1 : VectorsTreated(M1, p, Tail(treat_vectors), resistance_seqs))

\* The individuals of the list live, or of those of it named in subset when
\* that is not empty, that carry a pathogen
PossibleInfected(live, subset) ==
    {live[i].uid : i \in {j \in 1..Len(live) :
                             /\ live[j].pathogens # <<>>
                             /\ subset = <<>> \/ InSeq(live[j].uid, subset)}}

\* int(frac * length)
IntOf(frac, length) == (frac[1] * length) \div frac[2]

Treated(done, treated) == [M |-> done.M, exc |-> done.exc, treated |-> treated]

\* A treatment that samples among all the hosts considered, infected or not
treatHostsAnyone(M, p, frac_hosts, resistance_seqs, hosts, perm) ==
    With(IF hosts = <<>> THEN Uids(M[p].hosts) ELSE {hosts[i] : i \in 1..Len(hosts)},
         LAMBDA possible_infected_hosts :
    With(np_random_choice(possible_infected_hosts,
                          IntOf(frac_hosts, Cardinality(possible_infected_hosts)), perm),
         LAMBDA treat_hosts :
             Treated(HostsTreated(M, p, treat_hosts, resistance_seqs), treat_hosts)))

\* treatHosts(frac_hosts, resistance_seqs, hosts): hosts is a list of hosts of
\* the population, empty for the whole population; the result also names the
\* hosts sampled
treatHosts(M, p, frac_hosts, resistance_seqs, hosts, perm) ==
    With(PossibleInfected(M[p].hosts, hosts), LAMBDA possible_infected_hosts :
    With(np_random_choice(possible_infected_hosts,
                          IntOf(frac_hosts, Cardinality(possible_infected_hosts)), perm),
         LAMBDA treat_hosts :
             Treated(HostsTreated(M, p, treat_hosts, resistance_seqs), treat_hosts)))

treatVectors(M, p, frac_vectors, resistance_seqs, vectors, perm) ==
    With(PossibleInfected(M[p].vectors, vectors), LAMBDA possible_infected_vectors :
    With(np_random_choice(possible_infected_vectors,
                          IntOf(frac_vectors, Cardinality(possible_infected_vectors)), perm),
         LAMBDA treat_vectors :
             Treated(VectorsTreated(M, p, treat_vectors, resistance_seqs), treat_vectors)))

ResistanceSeqs == {<<"a">>, <<"a", "b">>}

Fractions == {Frac(1, 2), FInt(1)}

\* Ghost record of a treatment: the fraction, the list given (subset), the
\* resistance sequences (carried) and the individuals sampled (who)
TreatCall(op, p, kind, number, subset, resistance_seqs, done) ==
    [op |-> op, pop |-> p, target |-> p, kind |-> kind, exc |-> "none",
     pre |-> Counts(p, p), who |-> done.treated, carried |-> resistance_seqs,
     count |-> 0, number |-> number, subset |-> subset]

TreatHosts(p, hosts) ==
    /\ nops < MaxOps
    /\ \E frac_hosts \in Fractions, resistance_seqs \in ResistanceSeqs :
          \E perm \in Samples(Uids(populations[p].hosts), Len(populations[p].hosts)) :
              \E done \in {treatHosts(populations, p, frac_hosts, resistance_seqs,
                                      hosts, perm)} :
                  Returns(done, TreatCall("treatHosts", p, "host", frac_hosts, hosts,
                                          resistance_seqs, done))

TreatVectors(p, vectors) ==
    /\ nops < MaxOps
    /\ \E frac_vectors \in Fractions, resistance_seqs \in ResistanceSeqs :
          \E perm \in Samples(Uids(populations[p].vectors), Len(populations[p].vectors)) :
              \E done \in {treatVectors(populations, p, frac_vectors, resistance_seqs,
                                        vectors, perm)} :
                  Returns(done, TreatCall("treatVectors", p, "vector", frac_vectors,
                                          vectors, resistance_seqs, done))

HostEvents == {MIGRATE_HOST, CONTACT_HOST_HOST, RECOVER_HOST, KILL_HOST}

\* An event of positive rate is dispatched: doAction(act, pop, rand)
HostEvent(p, act) ==
    /\ nops < MaxOps
    /\ FLess(FInt(0), Rate(populations[p], act))
    /\ \A q \in PopIds : Len(populations[q].hosts) < MaxInd
    /\ \E rand \in Draws :
          \E a \in {doAction(populations, act, p, rand, numpy_strict)} :
              Returns([M |-> a.M, exc |-> a.exc],
                      Call("doAction", p, p, "host", <<>>, <<>>, act))

InitHosts ==
    /\ \E nhA \in 1..2 : populations = WithContact(NewModel(nhA, 1, 1, 1))
    /\ numpy_strict \in BOOLEAN
    /\ last = NoCall
    /\ nops = 0
    /\ gw = <<>>
    /\ interventions = <<>>
    /\ sim = NoRun

NextHosts ==
    \/ \E p \in PopIds : TreatHosts(p, <<>>)
    \/ \E p \in PopIds, act \in HostEvents : HostEvent(p, act)
    \/ \E p \in PopIds, n \in 1..2 : AddHosts(p, n)
    \/ \E p \in PopIds : RemoveHostsList(p)
    \/ \E p \in PopIds, k \in 1..2 : RemoveHostsInt(p, k)
    \/ \E p \in PopIds, genome \in Genomes : AddPathogensToHosts(p, genome)
    \/ \E p, q \in PopIds, num_hosts \in 0..1 : MigrateDraw(p, q, num_hosts)
    \/ \E p, q \in PopIds, num_hosts \in 0..1 : MigrateChoice(p, q, num_hosts)

SpecHosts == InitHosts /\ [][NextHosts]_vars

\* C19: in every population healthy_hosts and infected_hosts are disjoint,
\* together they are exactly the live hosts (so no removed host remains in
\* either), and a host is in infected_hosts if and only if it carries at
\* least one pathogen.
C19_HostsPartitioned ==
    \A p \in PopIds :
        LET P == populations[p]
        IN  /\ P.healthy_hosts \cap P.infected_hosts = {}
            /\ P.healthy_hosts \cup P.infected_hosts = Uids(P.hosts)
            /\ \A i \in 1..Len(P.hosts) :
                  P.hosts[i].uid \in P.infected_hosts <=> P.hosts[i].pathogens # <<>>

\* Of two infected hosts of a population one has recovered in a dispatched
\* event and is healthy again, the other is still infected
C19_Witness ==
    /\ last.op = "doAction"
    /\ last.count = RECOVER_HOST
    /\ last.exc = "none"
    /\ Len(populations[last.pop].hosts) = 2
    /\ Cardinality(populations[last.pop].healthy_hosts) = 1
    /\ Cardinality(populations[last.pop].infected_hosts) = 1

----------------------------------------------------------------------------
(* The ids addHosts and addVectors give, checked under SpecPop *)

\* C20: after any sequence of adds and removes no two live hosts of a
\* population share an id, and no two live vectors of a population share an
\* id: every individual addHosts or addVectors appends has a fresh id.
C20_IdsAreFresh ==
    \A p \in PopIds :
        /\ \A i, j \in 1..Len(populations[p].hosts) :
              i # j => populations[p].hosts[i].id # populations[p].hosts[j].id
        /\ \A i, j \in 1..Len(populations[p].vectors) :
              i # j => populations[p].vectors[i].id # populations[p].vectors[j].id

----------------------------------------------------------------------------
(* removeHosts and removeVectors with a number, checked under SpecPop *)

\* C21: removeHosts(k) and removeVectors(k) with an integer k not larger than
\* the live count return normally and leave the live count of that kind
\* exactly k below what it was before the call.
C21_RemovesExactlyK ==
    \A kind \in {"host", "vector"} :
        LET before == IF kind = "host" THEN last.pre[1] ELSE last.pre[2]
            now == IF kind = "host" THEN Len(populations[last.pop].hosts)
                   ELSE Len(populations[last.pop].vectors)
        IN  (/\ last.op \in {"removeHostsInt", "removeVectorsInt"}
             /\ last.kind = kind
             /\ last.count <= before) =>
                /\ last.exc = "none"
                /\ now = before - last.count

----------------------------------------------------------------------------
(* Specification SpecNeighbors: two constructed populations, not yet linked,
   and any sequence of calls of the four neighbor setters *)

InitNeighbors ==
    /\ populations = PopulationInit(
                         PopulationInit([p \in PopIds |-> NoPopulation], "A", 1, 1),
                         "B", 1, 1)
    /\ numpy_strict \in BOOLEAN
    /\ last = NoCall
    /\ nops = 0
    /\ gw = <<>>
    /\ interventions = <<>>
    /\ sim = NoRun

\* Ghost record of a setter call: carried holds the rate the neighbor had
SetterCall(op, p, neighbor, rate, dict) ==
    Call(op, p, neighbor, "none", <<>>,
         IF DictHas(dict, neighbor) THEN <<DictGet(dict, neighbor)>> ELSE <<>>, rate)

SetHostMigrationNeighbor(p, neighbor, rate) ==
    /\ nops < MaxOps
    /\ Returns(Ok(setHostMigrationNeighbor(populations, p, neighbor, rate)),
               SetterCall("setHostMigrationNeighbor", p, neighbor, rate,
                          populations[p].neighbors_hosts))

SetVectorMigrationNeighbor(p, neighbor, rate) ==
    /\ nops < MaxOps
    /\ Returns(Ok(setVectorMigrationNeighbor(populations, p, neighbor, rate)),
               SetterCall("setVectorMigrationNeighbor", p, neighbor, rate,
                          populations[p].neighbors_vectors))

SetHostPopulationContactNeighbor(p, neighbor, rate) ==
    /\ nops < MaxOps
    /\ Returns(Ok(setHostPopulationContactNeighbor(populations, p, neighbor, rate)),
               SetterCall("setHostPopulationContactNeighbor", p, neighbor, rate,
                          populations[p].neighbors_contact_hosts))

SetVectorPopulationContactNeighbor(p, neighbor, rate) ==
    /\ nops < MaxOps
    /\ Returns(Ok(setVectorPopulationContactNeighbor(populations, p, neighbor, rate)),
               SetterCall("setVectorPopulationContactNeighbor", p, neighbor, rate,
                          populations[p].neighbors_contact_vectors))

NextNeighbors ==
    \/ \E p, q \in PopIds, rate \in 0..MaxRate : SetHostMigrationNeighbor(p, q, rate)
    \/ \E p, q \in PopIds, rate \in 0..MaxRate : SetVectorMigrationNeighbor(p, q, rate)
    \/ \E p, q \in PopIds, rate \in 0..MaxRate :
          SetHostPopulationContactNeighbor(p, q, rate)
    \/ \E p, q \in PopIds, rate \in 0..MaxRate :
          SetVectorPopulationContactNeighbor(p, q, rate)

SpecNeighbors == InitNeighbors /\ [][NextNeighbors]_vars

\* The four neighbor maps of population p
NeighborMaps(p) ==
    {populations[p].neighbors_hosts, populations[p].neighbors_vectors,
     populations[p].neighbors_contact_hosts, populations[p].neighbors_contact_vectors}

SelfLoopsAtZero(p) ==
    \A dict \in NeighborMaps(p) : DictHas(dict, p) /\ DictGet(dict, p) = 0

\* C22 as stated: in every reachable state each of a population's four
\* neighbor maps holds an entry for the population itself, at rate 0.
C22_SelfLoopsAtZero == \A p \in PopIds : SelfLoopsAtZero(p)

\* C22 as amended: after construction each of the four maps holds the
\* population itself at rate 0, and every call keeps it so except a neighbor
\* setter called on the population with the population itself as neighbor.
C22_SelfLoopsUnlessSet ==
    /\ \A p \in PopIds : SelfLoopsAtZero(p)
    /\ [][\A p \in PopIds :
             (SelfLoopsAtZero(p) /\ ~(last'.pop = p /\ last'.target = p)) =>
                 SelfLoopsAtZero(p)']_vars

\* A population was given a neighbor other than itself at a positive rate,
\* after its own entry had been set once, and its own entries are at 0
C22_Witness ==
    /\ last.op = "setHostMigrationNeighbor"
    /\ last.target # last.pop
    /\ last.count > 0
    /\ last.carried # <<>>
    /\ SelfLoopsAtZero(last.pop)

SumValues(dict) == SumSeq(Tuple([i \in 1..Len(dict) |-> dict[i][2]]))

\* C23: after any sequence of setHostMigrationNeighbor and
\* setVectorMigrationNeighbor calls, re-setting an existing neighbor included,
\* total_migration_rate_hosts is the sum of the values of neighbors_hosts and
\* total_migration_rate_vectors is the sum of the values of neighbors_vectors.
C23_TotalsAreSums ==
    \A p \in PopIds :
        /\ populations[p].total_migration_rate_hosts =
               SumValues(populations[p].neighbors_hosts)
        /\ populations[p].total_migration_rate_vectors =
               SumValues(populations[p].neighbors_vectors)

\* The rate of an existing neighbor was lowered from MaxRate to 1
C23_Witness ==
    /\ last.op \in {"setHostMigrationNeighbor", "setVectorMigrationNeighbor"}
    /\ last.carried = <<MaxRate>>
    /\ last.count = 1
    /\ last.target # last.pop

----------------------------------------------------------------------------
(* Specification SpecTreat: infections are added to hosts and vectors, and
   treated in the whole population or in a list of its individuals *)

InitTreat ==
    /\ populations = NewModel(2, 2, 1, 1)
    /\ numpy_strict \in BOOLEAN
    /\ last = NoCall
    /\ nops = 0
    /\ gw = <<>>
    /\ interventions = <<>>
    /\ sim = NoRun

\* The lists a treatment may be given: none, or one or two individuals
Subsets(S) == {<<>>} \cup Samples(S, 1) \cup Samples(S, 2)

TreatHostsOf(p) ==
    \E hosts \in Subsets(Uids(populations[p].hosts)) : TreatHosts(p, hosts)

TreatVectorsOf(p) ==
    \E vectors \in Subsets(Uids(populations[p].vectors)) : TreatVectors(p, vectors)

NextTreat ==
    \/ \E p \in PopIds : AddPathogensToHostsMap(p)
    \/ \E p \in PopIds : AddPathogensToVectorsMap(p)
    \/ \E p \in PopIds : TreatHostsOf(p)
    \/ \E p \in PopIds : TreatVectorsOf(p)

SpecTreat == InitTreat /\ [][NextTreat]_vars

\* C24: treatHosts and treatVectors treat exactly floor(fraction * m) distinct
\* individuals, all of them infected members of the list given (of the whole
\* population when the list is empty), m being the number of those; a treated
\* individual loses exactly the genomes that miss a sequence of the
\* resistance set and, left with none, is healthy and no longer infected;
\* every other individual is as it was.
C24_TreatsFractionOfInfected ==
    [][(nops' = nops + 1 /\ last'.op \in {"treatHosts", "treatVectors"}) =>
          LET c == last'
              P == populations[c.pop]
              Q == populations'[c.pop]
              live == IF c.kind = "host" THEN P.hosts ELSE P.vectors
              after == IF c.kind = "host" THEN Q.hosts ELSE Q.vectors
              infected == {live[i].uid : i \in {j \in 1..Len(live) :
                              /\ live[j].pathogens # <<>>
                              /\ c.subset = <<>>
                                    \/ \E k \in 1..Len(c.subset) : c.subset[k] = live[j].uid}}
              treated == {c.who[i] : i \in 1..Len(c.who)}
              Healthy(S, u) == IF c.kind = "host"
                               THEN u \in S.healthy_hosts /\ u \notin S.infected_hosts
                               ELSE u \notin S.infected_vectors
          IN  /\ c.exc = "none"
              /\ Len(c.who) = (c.number[1] * Cardinality(infected)) \div c.number[2]
              /\ Cardinality(treated) = Len(c.who)
              /\ treated \subseteq infected
              /\ Len(after) = Len(live)
              /\ \A i \in 1..Len(live) :
                    /\ after[i].uid = live[i].uid
                    /\ live[i].uid \in treated =>
                          /\ \A g \in Genomes :
                                InSeq(g, after[i].pathogens) <=>
                                    /\ InSeq(g, live[i].pathogens)
                                    /\ \A k \in 1..Len(c.carried) :
                                          \E l \in 1..Len(g) : g[l] = c.carried[k]
                          /\ Healthy(Q, live[i].uid) <=> after[i].pathogens = <<>>
                    /\ live[i].uid \notin treated =>
                          /\ after[i] = live[i]
                          /\ Healthy(Q, live[i].uid) <=> Healthy(P, live[i].uid)
              /\ \A q \in PopIds \ {c.pop} : populations'[q] = populations[q]]_vars

\* Of the two infected hosts of a list, half were treated: one, which lost
\* its only genome and is healthy, while the other is still infected
C24_Witness ==
    /\ last.op = "treatHosts"
    /\ last.number = Frac(1, 2)
    /\ Len(last.subset) = 2
    /\ Len(last.who) = 1
    /\ last.who[1] \in populations[last.pop].healthy_hosts
    /\ Cardinality(populations[last.pop].infected_hosts) = 1

----------------------------------------------------------------------------
(* protectHosts, protectVectors, wipeProtectionHosts, wipeProtectionVectors.
   The list given is a list of individuals of the population, empty for the
   whole population; perm is the order in which np.random.choice would draw
   the population. *)

Protected(live, protect, protection_sequence) ==
    Tuple([i \in 1..Len(live) |->
              IF InSeq(live[i].uid, protect)
              THEN [live[i] EXCEPT !.protection_sequences =
                                       Append(@, protection_sequence)]
              ELSE live[i]])

Wiped(live, to_consider) ==
    Tuple([i \in 1..Len(live) |->
              IF to_consider = <<>> \/ InSeq(live[i].uid, to_consider)
              THEN [live[i] EXCEPT !.protection_sequences = <<>>]
              ELSE live[i]])

\* Lines 632-641: the number comes from the hosts considered, the sample from
\* self.hosts
protectHosts(M, p, frac_hosts, protection_sequence, hosts, perm) ==
    With(IntOf(frac_hosts, IF hosts = <<>> THEN Len(M[p].hosts) ELSE Len(hosts)),
         LAMBDA num :
             IF num > Len(M[p].hosts) THEN Raise(M, "ValueError")
             ELSE Ok([M EXCEPT ![p].hosts =
                         Protected(@, np_random_choice(Uids(M[p].hosts), num, perm),
                                   protection_sequence)]))

\* Lines 659-668
protectVectors(M, p, frac_vectors, protection_sequence, vectors, perm) ==
    With(IntOf(frac_vectors, IF vectors = <<>> THEN Len(M[p].vectors) ELSE Len(vectors)),
         LAMBDA num :
             IF num > Len(M[p].vectors) THEN Raise(M, "ValueError")
             ELSE Ok([M EXCEPT ![p].vectors =
                         Protected(@, np_random_choice(Uids(M[p].vectors), num, perm),
                                   protection_sequence)]))

\* Lines 678-683
wipeProtectionHosts(M, p, hosts) == Ok([M EXCEPT ![p].hosts = Wiped(@, hosts)])

\* Lines 693-698
wipeProtectionVectors(M, p, vectors) == Ok([M EXCEPT ![p].vectors = Wiped(@, vectors)])

----------------------------------------------------------------------------
(* Specification SpecProtect: any sequence of protections and wipes *)

ProtectHosts(p) ==
    /\ nops < MaxOps
    /\ \E frac_hosts \in Fractions, hosts \in Subsets(Uids(populations[p].hosts)) :
          \E perm \in Samples(Uids(populations[p].hosts), Len(populations[p].hosts)) :
              Returns(protectHosts(populations, p, frac_hosts, "a", hosts, perm),
                      Call("protectHosts", p, p, "host", hosts, <<"a">>, 0))

ProtectVectors(p) ==
    /\ nops < MaxOps
    /\ \E frac_vectors \in Fractions, vectors \in Subsets(Uids(populations[p].vectors)) :
          \E perm \in Samples(Uids(populations[p].vectors), Len(populations[p].vectors)) :
              Returns(protectVectors(populations, p, frac_vectors, "a", vectors, perm),
                      Call("protectVectors", p, p, "vector", vectors, <<"a">>, 0))

WipeProtectionHosts(p) ==
    /\ nops < MaxOps
    /\ \E hosts \in Subsets(Uids(populations[p].hosts)) :
          Returns(wipeProtectionHosts(populations, p, hosts),
                  Call("wipeProtectionHosts", p, p, "host", hosts, <<>>, 0))

WipeProtectionVectors(p) ==
    /\ nops < MaxOps
    /\ \E vectors \in Subsets(Uids(populations[p].vectors)) :
          Returns(wipeProtectionVectors(populations, p, vectors),
                  Call("wipeProtectionVectors", p, p, "vector", vectors, <<>>, 0))

NextProtect ==
    \/ \E p \in PopIds : ProtectHosts(p)
    \/ \E p \in PopIds : ProtectVectors(p)
    \/ \E p \in PopIds : WipeProtectionHosts(p)
    \/ \E p \in PopIds : WipeProtectionVectors(p)

SpecProtect == InitTreat /\ [][NextProtect]_vars

\* An individual but for its protection markers
Unprotected(x) == [x EXCEPT !.protection_sequences = <<>>]

\* C25: the four protection methods change only protection_sequences, and
\* only of individuals of the list given (of the whole population when the
\* list is empty): everything else of the population, and the protection
\* markers of the individuals outside the list, are as before the call.
C25_ProtectionOnlyInSubset ==
    [][(/\ nops' = nops + 1
        /\ last'.op \in {"protectHosts", "protectVectors",
                         "wipeProtectionHosts", "wipeProtectionVectors"}) =>
          \A q \in PopIds :
              LET P == populations[q]
                  Q == populations'[q]
                  Inside(u) == /\ q = last'.pop
                               /\ last'.who = <<>> \/ InSeq(u, last'.who)
                  Same(before, after, kind) ==
                      /\ Len(after) = Len(before)
                      /\ \A i \in 1..Len(before) :
                            /\ Unprotected(after[i]) = Unprotected(before[i])
                            /\ (last'.kind # kind \/ ~Inside(before[i].uid)) =>
                                  after[i] = before[i]
              IN  /\ Same(P.hosts, Q.hosts, "host")
                  /\ Same(P.vectors, Q.vectors, "vector")
                  /\ [Q EXCEPT !.hosts = <<>>, !.vectors = <<>>]
                         = [P EXCEPT !.hosts = <<>>, !.vectors = <<>>]]_vars

----------------------------------------------------------------------------
(* Population.copyState with the default sampling, and Specification
   SpecCopy: two snapshots of a population are taken one after the other and
   kept while the population goes on changing.  A snapshot is a slim
   population: its id and its lists of individuals; uid 0 marks an object
   that no list of the model holds. *)

\* host.copyState() / vector.copyState(): a new object with the identifier and
\* the pathogens of the individual
IndividualCopyState(x) == [uid |-> 0, id |-> x.id, pathogens |-> x.pathogens]

\* A snapshot whose lists hold the live individuals themselves
copyStateShared(M, p) ==
    [id |-> p,
     hosts |-> Tuple([i \in 1..Len(M[p].hosts) |->
                         [uid |-> M[p].hosts[i].uid, id |-> M[p].hosts[i].id,
                          pathogens |-> M[p].hosts[i].pathogens]]),
     vectors |-> Tuple([i \in 1..Len(M[p].vectors) |->
                           [uid |-> M[p].vectors[i].uid, id |-> M[p].vectors[i].id,
                            pathogens |-> M[p].vectors[i].pathogens]])]

\* Lines 171-199 with host_sampling = vector_sampling = 0: new lists of copies
copyState(M, p) ==
    [id |-> p,
     hosts |-> Tuple([i \in 1..Len(M[p].hosts) |-> IndividualCopyState(M[p].hosts[i])]),
     vectors |-> Tuple([i \in 1..Len(M[p].vectors) |->
                           IndividualCopyState(M[p].vectors[i])])]

\* copyState() twice in succession; gw keeps the two snapshots
CopyStateTwice(p) ==
    /\ nops < MaxOps
    /\ gw' = <<copyState(populations, p), copyState(populations, p)>>
    /\ last' = Call("copyState", p, p, "none", <<>>, <<>>, 0)
    /\ nops' = nops + 1
    /\ UNCHANGED <<populations, numpy_strict, interventions, sim>>

NextCopy ==
    \/ \E p \in PopIds : CopyStateTwice(p)
    \/ \E p \in PopIds : AddHosts(p, 1)
    \/ \E p \in PopIds : AddVectors(p, 1)
    \/ \E p \in PopIds : RemoveHostsList(p)
    \/ \E p \in PopIds : RemoveVectorsList(p)
    \/ \E p \in PopIds, genome \in Genomes : AddPathogensToHosts(p, genome)
    \/ \E p \in PopIds, genome \in Genomes : AddPathogensToVectors(p, genome)

SpecCopy == InitPop /\ [][NextCopy]_vars

\* What an object of a snapshot holds in the model M: the object is a live
\* individual of M if it has that individual's uid, and then reads as that
\* individual does
Reads(x, M) ==
    LET live == UNION {{M[q].hosts[i] : i \in 1..Len(M[q].hosts)}
                           \cup {M[q].vectors[i] : i \in 1..Len(M[q].vectors)} :
                       q \in PopIds}
    IN  IF \E y \in live : y.uid = x.uid
        THEN LET y == CHOOSE y \in live : y.uid = x.uid
             IN  [uid |-> x.uid, id |-> y.id, pathogens |-> y.pathogens]
        ELSE x

View(copy, M) ==
    [id |-> copy.id,
     hosts |-> Tuple([i \in 1..Len(copy.hosts) |-> Reads(copy.hosts[i], M)]),
     vectors |-> Tuple([i \in 1..Len(copy.vectors) |-> Reads(copy.vectors[i], M)])]

----------------------------------------------------------------------------
(* Specification SpecContact: population contact events dispatched by
   doAction.  Population B holds a host and a vector carrying a genome whose
   population contact coefficient is 1, next to individuals without pathogens,
   so that the mean of B's POPULATION_CONTACT columns lies strictly between 0
   and 1; the contact neighbor weights start at 0 and are set by the
   setters. *)

\* The row of an individual carrying a genome of population contact
\* coefficient 1
ContactRow == [InfectedRow EXCEPT ![POPULATION_CONTACT + 1] = 1]

WithCarriers(M) ==
    With(VectorAcquireAt(HostAcquireAt(M, "B", 1, <<"a">>).M, "B", 1, <<"a">>).M,
         LAMBDA M1 : [M1 EXCEPT !["B"].coefficients_hosts[1].c = ContactRow,
                                !["B"].coefficients_vectors[1].c = ContactRow])

InitContact ==
    /\ populations = WithCarriers(NewModel(1, 1, 2, 2))
    /\ numpy_strict \in BOOLEAN
    /\ last = NoCall
    /\ nops = 0
    /\ gw = <<>>
    /\ interventions = <<>>
    /\ sim = NoRun

PopulationContactEvents ==
    {POPULATION_CONTACT_HOST_HOST, POPULATION_CONTACT_HOST_VECTOR,
     POPULATION_CONTACT_VECTOR_HOST}

\* getRates, then doAction(act, pop, rand) for a cell of positive rate
PopulationContactEvent(p, act) ==
    /\ nops < MaxOps
    /\ \E r \in {getRates(populations, population_ids)} :
          /\ FLess(FInt(0), Rate(r.M[p], act))
          /\ \E rand \in Draws :
                \E a \in {doAction(r.M, act, p, rand, numpy_strict)} :
                    Returns([M |-> a.M, exc |-> a.exc],
                            Call("doAction", p, p, "none", <<>>, <<>>, act))

NextContact ==
    \/ \E p, neighbor \in PopIds, rate \in 0..MaxRate :
          SetHostPopulationContactNeighbor(p, neighbor, rate)
    \/ \E p, neighbor \in PopIds, rate \in 0..MaxRate :
          SetVectorPopulationContactNeighbor(p, neighbor, rate)
    \/ \E genome \in Genomes : AddPathogensToHosts("A", genome)
    \/ \E genome \in Genomes : AddPathogensToVectors("A", genome)
    \/ \E p \in PopIds, act \in PopulationContactEvents : PopulationContactEvent(p, act)

SpecContact == InitContact /\ [][NextContact]_vars

\* C27: a population contact event that doAction dispatches completes without
\* error.
C27_PopulationContactCompletes ==
    (last.op = "doAction" /\ last.count \in PopulationContactEvents)
        => last.exc = "none"

----------------------------------------------------------------------------
(* Specification SpecRates: getRates on the populations as calls of the
   Population API leave them.  gw keeps the matrix getRates returned. *)

GetRates ==
    /\ nops < MaxOps
    /\ \E r \in {getRates(populations, population_ids)} :
          /\ populations' = r.M
          /\ gw' = r.rates
    /\ last' = Call("getRates", "A", "B", "none", <<>>, <<>>, 0)
    /\ nops' = nops + 1
    /\ UNCHANGED <<numpy_strict, interventions, sim>>

NextRates ==
    \/ GetRates
    \/ \E p \in PopIds : AddHosts(p, 1)
    \/ \E p \in PopIds : RemoveHostsList(p)
    \/ \E p \in PopIds, genome \in Genomes : AddPathogensToHosts(p, genome)
    \/ \E p \in PopIds, genome \in Genomes : AddPathogensToVectors(p, genome)
    \/ \E p, q \in PopIds : MigrateChoice(p, q, 1)

SpecRates == InitPop /\ [][NextRates]_vars

\* C28: when every population holds at least one individual, every entry of
\* the matrix getRates returns is a defined number greater than or equal to 0.
C28_RatesDefinedNonNegative ==
    (/\ last.op = "getRates"
     /\ last.pre[1] + last.pre[2] >= 1
     /\ last.pre[3] + last.pre[4] >= 1)
        => /\ Len(gw) = Len(evt_IDs)
           /\ \A e \in 1..Len(gw) :
                 /\ Len(gw[e]) = Len(population_ids)
                 /\ \A i \in 1..Len(gw[e]) :
                       /\ ~IsNaN(gw[e][i])
                       /\ ~FLess(gw[e][i], FInt(0))

----------------------------------------------------------------------------
(* Specification SpecDispatch: the rates are computed and an event of any
   class whose cell is positive is dispatched, as lines 445-446 and 491-526
   of run do, from the populations of SpecContact with contact between the
   hosts of A.  The genome added is one both populations accept. *)

DispatchedEvents ==
    {MIGRATE_HOST, MIGRATE_VECTOR, CONTACT_HOST_HOST, RECOVER_HOST, RECOVER_VECTOR,
     KILL_HOST} \cup PopulationContactEvents

\* Ghost record of a dispatch: changed is what doAction returned (FALSE when it
\* raised) and altered tells whether it left the populations other than
\* getRates had left them
DispatchCall(p, act, before, a) ==
    [op |-> "dispatch", pop |-> p, target |-> p, kind |-> "none", exc |-> "none",
     pre |-> Counts(p, p), who |-> <<>>, carried |-> <<>>, count |-> act,
     changed |-> a.exc = "none" /\ a.changed, altered |-> a.M # before]

DispatchedEvent(p, act) ==
    /\ nops < MaxOps
    /\ \A q \in PopIds : Len(populations[q].hosts) < MaxInd
                         /\ Len(populations[q].vectors) < MaxInd
    /\ \E r \in {getRates(populations, population_ids)} :
          /\ FLess(FInt(0), Rate(r.M[p], act))
          /\ \E rand \in Draws :
                \E a \in {doAction(r.M, act, p, rand, numpy_strict)} :
                    Returns([M |-> a.M, exc |-> a.exc], DispatchCall(p, act, r.M, a))

InitDispatch ==
    /\ populations = WithContact(WithCarriers(NewModel(1, 1, 2, 2)))
    /\ numpy_strict \in BOOLEAN
    /\ last = NoCall
    /\ nops = 0
    /\ gw = <<>>
    /\ interventions = <<>>
    /\ sim = NoRun

NextDispatch ==
    \/ \E p, neighbor \in PopIds, rate \in 0..1 :
          SetHostPopulationContactNeighbor(p, neighbor, rate)
    \/ \E p, neighbor \in PopIds, rate \in 0..1 :
          SetVectorPopulationContactNeighbor(p, neighbor, rate)
    \/ AddPathogensToHosts("A", <<"a">>)
    \/ AddPathogensToVectors("A", <<"a">>)
    \/ \E p \in PopIds, act \in DispatchedEvents : DispatchedEvent(p, act)

SpecDispatch == InitDispatch /\ [][NextDispatch]_vars

\* C30: every dispatched event whose rate cell is positive runs its action to
\* completion: no weighted selection inside it comes back without an index
\* and nothing else stops it.
C30_DispatchedEventCompletes ==
    last.op = "dispatch" => last.exc = "none"

----------------------------------------------------------------------------
(* Population.recombineHost / recombineVector, and Specification
   SpecRecombine.  The first host and the first vector of A carry a genome
   that mutates but does not recombine: their rows hold 1 in the MUTATION
   column and 0 in the RECOMBINATION column. *)

NoRecombinationRow == [InfectedRow EXCEPT ![RECOMBINATION + 1] = 0]

WithoutRecombination(M) ==
    With(VectorAcquireAt(HostAcquireAt(M, "A", 1, <<"a">>).M, "A", 1, <<"a">>).M,
         LAMBDA M1 : [M1 EXCEPT !["A"].coefficients_hosts[1].c = NoRecombinationRow,
                                !["A"].coefficients_vectors[1].c = NoRecombinationRow])

\* host.recombine(rand) / vector.recombine(rand): with one locus a recombinant
\* of two genomes is one of the two, and the individual carries what it carried
HostRecombine(M, p, pos, rand) == Ok(M)
VectorRecombine(M, p, pos, rand) == Ok(M)

recombineHostAt(M, p, sel) ==
    IF sel = None THEN [M |-> M, exc |-> "TypeError", index |-> -1]
    ELSE IF sel.index >= Len(M[p].hosts)
         THEN [M |-> M, exc |-> "IndexError", index |-> sel.index]
         ELSE [M |-> HostRecombine(M, p, sel.index + 1, sel.rand).M, exc |-> "none",
               index |-> sel.index]

\* Lines 1029-1034: the draw is weighted on the MUTATION column
recombineHost(M, p, rand) ==
    With(getWeightedRandom(rand, Column(M[p].coefficients_hosts, MUTATION)),
         LAMBDA sel : recombineHostAt(M, p, sel))

recombineVectorAt(M, p, sel) ==
    IF sel = None THEN [M |-> M, exc |-> "TypeError", index |-> -1]
    ELSE IF sel.index >= Len(M[p].vectors)
         THEN [M |-> M, exc |-> "IndexError", index |-> sel.index]
         ELSE [M |-> VectorRecombine(M, p, sel.index + 1, sel.rand).M, exc |-> "none",
               index |-> sel.index]

\* Lines 1045-1050
recombineVector(M, p, rand) ==
    With(getWeightedRandom(rand, Column(M[p].coefficients_vectors, MUTATION)),
         LAMBDA sel : recombineVectorAt(M, p, sel))

\* Ghost record of a selection: who holds the individual selected and carried
\* the coefficient it has in the column given
SelectionCall(op, p, kind, live, matrix, column, done) ==
    Call(op, p, p, kind,
         IF done.exc = "none" THEN <<live[done.index + 1].uid>> ELSE <<>>,
         IF done.exc = "none" THEN <<matrix[done.index + 1].c[column + 1]>> ELSE <<>>,
         done.index)

RecombineHost(p) ==
    /\ nops < MaxOps
    /\ \E rand \in Draws :
          \E done \in {recombineHost(populations, p, rand)} :
              Returns([M |-> done.M, exc |-> done.exc],
                      SelectionCall("recombineHost", p, "host", populations[p].hosts,
                                    populations[p].coefficients_hosts, RECOMBINATION,
                                    done))

RecombineVector(p) ==
    /\ nops < MaxOps
    /\ \E rand \in Draws :
          \E done \in {recombineVector(populations, p, rand)} :
              Returns([M |-> done.M, exc |-> done.exc],
                      SelectionCall("recombineVector", p, "vector",
                                    populations[p].vectors,
                                    populations[p].coefficients_vectors, RECOMBINATION,
                                    done))

InitRecombine ==
    /\ populations = WithoutRecombination(NewModel(2, 2, 1, 1))
    /\ numpy_strict \in BOOLEAN
    /\ last = NoCall
    /\ nops = 0
    /\ gw = <<>>
    /\ interventions = <<>>
    /\ sim = NoRun

NextRecombine ==
    \/ \E p \in PopIds : RecombineHost(p)
    \/ \E p \in PopIds : RecombineVector(p)
    \/ \E p \in PopIds : AddHosts(p, 1)
    \/ \E p \in PopIds : AddVectors(p, 1)
    \/ \E genome \in Genomes : AddPathogensToHosts("B", genome)
    \/ \E genome \in Genomes : AddPathogensToVectors("B", genome)

SpecRecombine == InitRecombine /\ [][NextRecombine]_vars

\* C31: the individual recombineHost or recombineVector selects has a
\* RECOMBINATION coefficient other than 0.
C31_RecombinationNeverSelectsZero ==
    (last.op \in {"recombineHost", "recombineVector"} /\ last.exc = "none")
        => last.carried # <<0>>

----------------------------------------------------------------------------
(* Specification SpecKill: killHost on populations whose LETHALITY column has
   a positive sum *)

KillHost(p) ==
    /\ nops < MaxOps
    /\ SumSeq(Column(populations[p].coefficients_hosts, LETHALITY)) > 0
    /\ \E rand \in Draws :
          Returns(killHost(populations, p, rand),
                  Call("killHost", p, p, "host", <<>>, <<>>, 1))

NextKill ==
    \/ \E p \in PopIds : KillHost(p)
    \/ \E p \in PopIds : AddHosts(p, 1)
    \/ \E p \in PopIds, genome \in Genomes : AddPathogensToHosts(p, genome)

SpecKill == InitPop /\ [][NextKill]_vars

\* C32: killHost on a population whose LETHALITY column has a positive sum
\* completes without error and leaves one live host fewer.
C32_KillRemovesOne ==
    last.op = "killHost"
        => /\ last.exc = "none"
           /\ Len(populations[last.pop].hosts) = last.pre[1] - 1

----------------------------------------------------------------------------
(* Specification SpecMigrate: migration events dispatched by doAction.  The
   genome added is one both populations accept, and the migration setters are
   called for another population than the one they are called on. *)

\* The neighbor at which the loops of lines 291-293 and 303-305 stop and the
\* draw they hand to migrate (ghost); rand is already scaled
RECURSIVE doActionMigrateScan(_, _, _, _)
doActionMigrateScan(neighbors, i, r_cum_before, rand) ==
    IF i > Len(neighbors) THEN [neighbor |-> "none", rand |-> FInt(0)]
    ELSE IF FLess(rand, FInt(r_cum_before + neighbors[i][2]))
         THEN [neighbor |-> neighbors[i][1],
               rand |-> FDiv(FAdd(FSub(rand, FInt(r_cum_before + neighbors[i][2])),
                                  FInt(neighbors[i][2])),
                             FInt(neighbors[i][2]))]
         ELSE doActionMigrateScan(neighbors, i + 1, r_cum_before + neighbors[i][2],
                                  rand)

\* Ghost record of a dispatched migration: the neighbor the scan stopped at
\* (the population itself if it stopped at none), the draw forwarded and what
\* doAction returned
MigrationEventCall(p, act, scan, a) ==
    [op |-> "doActionMigrate", pop |-> p,
     target |-> IF scan.neighbor = "none" THEN p ELSE scan.neighbor,
     kind |-> IF act = MIGRATE_HOST THEN "host" ELSE "vector", exc |-> "none",
     pre |-> Counts(p, IF scan.neighbor = "none" THEN p ELSE scan.neighbor),
     who |-> <<>>, carried |-> <<>>, count |-> act,
     changed |-> a.changed, residual |-> scan.rand]

MigrationEvent(p, act) ==
    /\ nops < MaxOps
    /\ \A q \in PopIds : Len(populations[q].hosts) < MaxInd
                         /\ Len(populations[q].vectors) < MaxInd
    /\ FLess(FInt(0), Rate(populations[p], act))
    /\ \E rand \in Draws :
          \E a \in {doAction(populations, act, p, rand, numpy_strict)} :
              Returns([M |-> a.M, exc |-> a.exc],
                      MigrationEventCall(p, act,
                          IF act = MIGRATE_HOST
                          THEN doActionMigrateScan(populations[p].neighbors_hosts, 1, 0,
                                   FMul(rand,
                                        FInt(populations[p].total_migration_rate_hosts)))
                          ELSE doActionMigrateScan(populations[p].neighbors_vectors, 1, 0,
                                   FMul(rand,
                                        FInt(populations[p].total_migration_rate_vectors))),
                          a))

NextMigrate ==
    \/ \E p \in PopIds, act \in {MIGRATE_HOST, MIGRATE_VECTOR} : MigrationEvent(p, act)
    \/ \E p \in PopIds : AddPathogensToHosts(p, <<"a">>)
    \/ \E p \in PopIds : AddPathogensToVectors(p, <<"a">>)
    \/ \E p \in PopIds, rate \in 0..MaxRate :
          SetHostMigrationNeighbor(p, CHOOSE q \in PopIds : q # p, rate)
    \/ \E p \in PopIds, rate \in 0..MaxRate :
          SetVectorMigrationNeighbor(p, CHOOSE q \in PopIds : q # p, rate)

SpecMigrate == InitPop /\ [][NextMigrate]_vars

\* C33: a dispatched migration event completes and reports a change; the
\* population loses one individual of the kind of the event and none of the
\* other kind, a neighbor other than the population, whose migration rate is
\* positive, gains them, and the draw handed to migrate lies in [0,1).
C33_MigrationEventMovesOne ==
    last.op = "doActionMigrate"
        => /\ last.exc = "none"
           /\ last.changed
           /\ last.target # last.pop
           /\ DictGet(IF last.kind = "host"
                      THEN populations[last.pop].neighbors_hosts
                      ELSE populations[last.pop].neighbors_vectors, last.target) > 0
           /\ ~FLess(last.residual, FInt(0)) /\ FLess(last.residual, FInt(1))
           /\ Counts(last.pop, last.target) =
                 IF last.kind = "host"
                 THEN <<last.pre[1] - 1, last.pre[2], last.pre[3] + 1, last.pre[4]>>
                 ELSE <<last.pre[1], last.pre[2] - 1, last.pre[3], last.pre[4] + 1>>

----------------------------------------------------------------------------
(* Specification SpecContactScan: the neighbor scan of the population contact
   branches of doAction, from populations with and without carriers of a
   genome of population contact coefficient 1 *)

\* The neighbor at which the loops of lines 316-328, 333-345 and 350-362 stop
\* and the draw they compute for populationContact (ghost); rand is already
\* scaled by the total getRates stored
RECURSIVE doActionPopulationContactScan(_, _, _, _, _)
doActionPopulationContactScan(neighbors, means, i, r_cum_before, rand) ==
    IF i > Len(neighbors) THEN [neighbor |-> "none", rand |-> FInt(0)]
    ELSE With(FAdd(r_cum_before, FMul(FInt(neighbors[i][2]), means[i])),
              LAMBDA r_cum :
         IF FLess(rand, r_cum)
         THEN [neighbor |-> neighbors[i][1],
               rand |-> FDiv(FAdd(FSub(rand, r_cum), FInt(neighbors[i][2])),
                             FInt(neighbors[i][2]))]
         ELSE doActionPopulationContactScan(neighbors, means, i + 1, r_cum, rand))

ScanOf(M, act, p, rand) ==
    CASE act = POPULATION_CONTACT_HOST_HOST ->
           doActionPopulationContactScan(M[p].neighbors_contact_hosts,
               MeansHosts(M, M[p].neighbors_contact_hosts), 1, FInt(0),
               FMul(rand, M[p].total_population_contact_rate_host_host))
      [] act = POPULATION_CONTACT_HOST_VECTOR ->
           doActionPopulationContactScan(M[p].neighbors_contact_hosts,
               MeansVectors(M, M[p].neighbors_contact_hosts), 1, FInt(0),
               FMul(rand, M[p].total_population_contact_rate_host_vector))
      [] act = POPULATION_CONTACT_VECTOR_HOST ->
           doActionPopulationContactScan(M[p].neighbors_contact_vectors,
               MeansHosts(M, M[p].neighbors_contact_vectors), 1, FInt(0),
               FMul(rand, M[p].total_population_contact_rate_vector_host))

\* Ghost record of a dispatched population contact: who names the neighbor
\* the scan stopped at, carried holds the draw it computed
PopulationContactScan(p, act) ==
    /\ nops < MaxOps
    /\ \E r \in {getRates(populations, population_ids)} :
          /\ FLess(FInt(0), Rate(r.M[p], act))
          /\ \E rand \in Draws :
                \E a \in {doAction(r.M, act, p, rand, numpy_strict)},
                   scan \in {ScanOf(r.M, act, p, rand)} :
                    Returns([M |-> a.M, exc |-> a.exc],
                            Call("doActionPopulationContact", p, p, "none",
                                 IF scan.neighbor = "none" THEN <<>>
                                 ELSE <<scan.neighbor>>,
                                 <<scan.rand>>, act))

InitContactScan ==
    /\ populations \in {NewModel(1, 1, 2, 2), WithCarriers(NewModel(1, 1, 2, 2))}
    /\ numpy_strict \in BOOLEAN
    /\ last = NoCall
    /\ nops = 0
    /\ gw = <<>>
    /\ interventions = <<>>
    /\ sim = NoRun

NextContactScan ==
    \/ \E p, neighbor \in PopIds, rate \in 0..MaxRate :
          SetHostPopulationContactNeighbor(p, neighbor, rate)
    \/ \E p, neighbor \in PopIds, rate \in 0..MaxRate :
          SetVectorPopulationContactNeighbor(p, neighbor, rate)
    \/ \E genome \in Genomes : AddPathogensToHosts("A", genome)
    \/ \E genome \in Genomes : AddPathogensToVectors("A", genome)
    \/ \E p \in PopIds, act \in PopulationContactEvents : PopulationContactScan(p, act)

SpecContactScan == InitContactScan /\ [][NextContactScan]_vars

\* C34: when a population contact event of positive rate is dispatched, the
\* neighbor scan stops at some neighbor, and the draw it computes for
\* populationContact lies in [0,1).
C34_ContactScanSelects ==
    last.op = "doActionPopulationContact"
        => /\ last.who # <<>>
           /\ ~FLess(last.carried[1], FInt(0))
           /\ FLess(last.carried[1], FInt(1))

----------------------------------------------------------------------------
\* C35: whenever a dispatched action has changed the populations, doAction
\* returns True.
C35_ChangeIsReported ==
    (last.op = "dispatch" /\ last.altered) => last.changed

----------------------------------------------------------------------------
\* C36: run dispatches an event only while the clock, after the waiting time
\* and the interventions, is strictly below the horizon; once it has reached
\* the horizon there, no event is dispatched, no rates are computed and the
\* populations stay as they are until run returns.
C36_NothingPastHorizon ==
    [][/\ sim'.did = "event" => sim.t_var < sim.tf
       /\ (sim.pc \in {"event", "while"} /\ sim.t_var >= sim.tf)
             => /\ populations' = populations
                /\ sim'.r = sim.r
                /\ sim'.did \in {"none", "return"}
                /\ sim'.pc \in {"while", "returned"}]_vars

\* run has returned after the clock passed the horizon at the event test, with
\* a positive total rate and at least one event dispatched before
C36_Witness ==
    /\ sim.pc = "returned"
    /\ sim.t_var >= sim.tf
    /\ FLess(FInt(0), sim.r_tot)
    /\ sim.event.e # -1

----------------------------------------------------------------------------
\* C37: where run draws a waiting time again after interventions and where it
\* selects an event, the rate matrix and its total are those of the
\* populations as they are then.
C37_RatesAreCurrent ==
    sim.pc \in {"redraw", "event"} =>
        /\ sim.r = getRates(populations, population_ids).rates
        /\ sim.r_tot = np_sum(sim.r)

\* run is about to select an event below the horizon, and an intervention
\* has been applied since the last event was dispatched
C37_Witness ==
    /\ sim.pc = "event"
    /\ sim.t_var < sim.tf
    /\ FLess(FInt(0), sim.r_tot)
    /\ Len(sim.applied) > 0
    /\ sim.event.e # -1
    /\ sim.event.intervention_tracker < sim.intervention_tracker

----------------------------------------------------------------------------
(* Specification SpecRemove: removeHosts and removeVectors with lists that
   may name individuals of another population or name one twice *)

\* The lists of one or two individuals drawn from S, repeats allowed
Listings(S) == UNION {[1..k -> S] : k \in 1..2}

\* The record of a call with a list: the populations as they were
RemoveCall(op, p, kind, list) ==
    [op |-> op, pop |-> p, target |-> p, kind |-> kind, exc |-> "none",
     pre |-> Counts(p, p), who |-> list, carried |-> <<>>, count |-> Len(list),
     before |-> populations]

RemoveListedHosts(p) ==
    /\ nops < MaxOps
    /\ \E list \in Listings(AllHosts) :
          Returns(removeHostsList(populations, p, list, numpy_strict),
                  RemoveCall("removeHosts", p, "host", list))

RemoveListedVectors(p) ==
    /\ nops < MaxOps
    /\ \E list \in Listings(AllVectors) :
          Returns(removeVectorsList(populations, p, list, numpy_strict),
                  RemoveCall("removeVectors", p, "vector", list))

NextRemove ==
    \/ \E p \in PopIds : RemoveListedHosts(p)
    \/ \E p \in PopIds : RemoveListedVectors(p)
    \/ \E p \in PopIds : AddHosts(p, 1)
    \/ \E p \in PopIds : AddVectors(p, 1)

SpecRemove == InitPop /\ [][NextRemove]_vars

\* The individuals of live, in order, whose uid is not in gone
RECURSIVE Without(_, _)
Without(live, gone) ==
    IF live = <<>> THEN <<>>
    ELSE IF Head(live).uid \in gone THEN Without(Tail(live), gone)
    ELSE <<Head(live)>> \o Without(Tail(live), gone)

Listed(list) == {list[i] : i \in 1..Len(list)}

\* C38: a call of removeHosts or removeVectors with a list leaves the
\* populations as they were when no listed individual is live in the
\* population, and otherwise leaves live exactly the individuals that were
\* live and are not listed, in their order.
C38_ListedLiveRemovedOnce ==
    last.op \in {"removeHosts", "removeVectors"} =>
        LET before == IF last.kind = "host" THEN last.before[last.pop].hosts
                      ELSE last.before[last.pop].vectors
            after  == IF last.kind = "host" THEN populations[last.pop].hosts
                      ELSE populations[last.pop].vectors
        IN  /\ Listed(last.who) \cap Uids(before) = {} => populations = last.before
            /\ UidList(after) = UidList(Without(before, Listed(last.who)))

----------------------------------------------------------------------------
\* What a population holds about its hosts, and about its vectors
HostSide(P) == <<P.hosts, P.coefficients_hosts>>
VectorSide(P) == <<P.vectors, P.coefficients_vectors>>

\* C39: a call of removeVectors or a migration of vectors leaves the hosts
\* sequence, the hosts' coefficient_index and the host coefficient matrix of
\* every population as they were, and a call of removeHosts or a migration of
\* hosts leaves the vectors sequence, the vectors' coefficient_index and the
\* vector coefficient matrix as they were.
C39_OtherKindUntouched ==
    [][/\ (last'.kind = "vector"
             /\ last'.op \in {"removeVectors", "removeVectorsInt", "migrate"})
          => \A p \in PopIds :
                HostSide(populations'[p]) = HostSide(populations[p])
       /\ (last'.kind = "host"
             /\ last'.op \in {"removeHosts", "removeHostsInt", "migrate"})
          => \A p \in PopIds :
                VectorSide(populations'[p]) = VectorSide(populations[p])]_vars

----------------------------------------------------------------------------
(* Specification SpecInit: Population(id, setup, num_hosts, num_vectors) for
   counts from 0, with the arrays as numpy holds them: an array has a number
   of dimensions, and np.zeros(n) has one. *)

\* np.zeros(n): a one-dimensional array of n zeros
np_zeros(n) == [ndim |-> 1, data |-> Tuple([k \in 1..n |-> 0])]

\* The array after the constructors of the individuals appended rows to
\* start: two-dimensional, the values of start being its first row; start
\* itself when no individual was constructed.
Stacked(start, rows) ==
    IF rows = <<>> THEN start
    ELSE [ndim |-> 2, data |-> <<[owner |-> 0, c |-> start.data]>> \o rows]

\* np.delete(arr, 0, 0): the array without its first entry along axis 0,
\* a row of a two-dimensional array and a number of a one-dimensional one
np_delete_first(arr) == [arr EXCEPT !.data = Tail(@)]

\* arr.shape
np_shape(arr) ==
    IF arr.ndim = 1 THEN <<Len(arr.data)>>
    ELSE <<Len(arr.data), NUM_COEFFICIENTS>>

\* arr[:, col].sum(): a one-dimensional array cannot be indexed twice
ColumnSum(arr, col) ==
    IF arr.ndim = 1 THEN [value |-> 0, exc |-> "IndexError"]
    ELSE [value |-> SumSeq(Column(arr.data, col)), exc |-> "none"]

\* Population.__init__ (not slim), lines 90-112: the object constructed
PopulationNew(id, num_hosts, num_vectors) ==
    With(NewHosts([populations EXCEPT ![id] = PopulationStart], id, 0, 0,
                  num_hosts, <<>>), LAMBDA H :
    With(NewVectors(H.M, id, 0, 0, num_vectors, <<>>), LAMBDA V :
         [id |-> id,
          hosts |-> DecrementIndex(H.new),
          vectors |-> DecrementIndex(V.new),
          coefficients_hosts |->
              np_delete_first(Stacked(np_zeros(NUM_COEFFICIENTS),
                                      Tail(V.M[id].coefficients_hosts))),
          coefficients_vectors |->
              np_delete_first(Stacked(np_zeros(NUM_COEFFICIENTS),
                                      Tail(V.M[id].coefficients_vectors))),
          total_migration_rate_hosts |-> 0,
          total_migration_rate_vectors |-> 0]))

\* The record of a constructor call and the object it made
ConstructCall(id, num_hosts, num_vectors, made) ==
    [op |-> "Population", pop |-> id, target |-> id, kind |-> "none",
     exc |-> "none", pre |-> Counts(id, id), who |-> <<>>, carried |-> <<>>,
     count |-> 0, num_hosts |-> num_hosts, num_vectors |-> num_vectors,
     made |-> made]

Construct(id, num_hosts, num_vectors) ==
    /\ nops < MaxOps
    /\ last' = ConstructCall(id, num_hosts, num_vectors,
                             PopulationNew(id, num_hosts, num_vectors))
    /\ nops' = nops + 1
    /\ UNCHANGED <<populations, numpy_strict, gw, interventions, sim>>

\* getRates, lines 121-133, on the population last constructed: the sums of
\* the MIGRATION columns
MigrationRatesOf(P) ==
    With(ColumnSum(P.coefficients_hosts, MIGRATION), LAMBDA h :
    With(ColumnSum(P.coefficients_vectors, MIGRATION), LAMBDA v :
         IF h.exc # "none" THEN [rates |-> <<>>, exc |-> h.exc]
         ELSE IF v.exc # "none" THEN [rates |-> <<>>, exc |-> v.exc]
         ELSE [rates |-> <<P.total_migration_rate_hosts * h.value,
                           P.total_migration_rate_vectors * v.value>>,
               exc |-> "none"]))

MigrationRates ==
    /\ last.op = "Population"
    /\ last' = [last EXCEPT !.op = "getRates",
                            !.exc = MigrationRatesOf(last.made).exc]
    /\ UNCHANGED <<populations, numpy_strict, nops, gw, interventions, sim>>

NextInit ==
    \/ \E id \in PopIds, num_hosts, num_vectors \in 0..MaxInd :
          Construct(id, num_hosts, num_vectors)
    \/ MigrationRates

SpecInit == InitPop /\ [][NextInit]_vars

Indexed(live) == \A i \in 1..Len(live) : live[i].coefficient_index = i - 1

\* C40: a population constructed with num_hosts >= 0 hosts and
\* num_vectors >= 0 vectors has a host coefficient matrix of num_hosts rows
\* and 8 columns and a vector coefficient matrix of num_vectors rows and 8
\* columns, every individual's coefficient_index is its position, and the
\* column sums of getRates are defined on it.
C40_ConstructedShapes ==
    /\ last.op \in {"Population", "getRates"} =>
          /\ np_shape(last.made.coefficients_hosts)
                = <<last.num_hosts, NUM_COEFFICIENTS>>
          /\ np_shape(last.made.coefficients_vectors)
                = <<last.num_vectors, NUM_COEFFICIENTS>>
          /\ Len(last.made.hosts) = last.num_hosts
          /\ Len(last.made.vectors) = last.num_vectors
          /\ Indexed(last.made.hosts) /\ Indexed(last.made.vectors)
    /\ last.op = "getRates" => last.exc = "none"

====
